---- MODULE Spec2Model ----
(***************************************************************************)
(* A model of the normalization and identity-generation engine of          *)
(* adapters/common.py: text repair, the author-name repair pipeline, the   *)
(* record assembler normalize_paper and the bibtex-key collision resolver.  *)
(*                                                                         *)
(* A Python str is a sequence of code points (integers); a dict is a       *)
(* function whose DOMAIN is its key set; a list is a sequence.  A call     *)
(* that raises yields a record [raised |-> <exception name>, ...].         *)
(***************************************************************************)
EXTENDS Integers, Sequences, FiniteSets, TLC

(***************************************************************************)
(* Characters.  Printable ASCII is written with one-character strings and  *)
(* turned into code points by Ord, as Python's ord() does ("grave" stands  *)
(* for the backquote, which a TLA+ string cannot hold).                    *)
(***************************************************************************)
Ascii ==
  <<
    " ", "!", "\"", "#", "$", "%", "&", "'", "(", ")", "*", "+",
    ",", "-", ".", "/", "0", "1", "2", "3", "4", "5", "6", "7",
    "8", "9", ":", ";", "<", "=", ">", "?", "@", "A", "B", "C",
    "D", "E", "F", "G", "H", "I", "J", "K", "L", "M", "N", "O",
    "P", "Q", "R", "S", "T", "U", "V", "W", "X", "Y", "Z", "[",
    "\\", "]", "^", "_", "grave", "a", "b", "c", "d", "e", "f", "g",
    "h", "i", "j", "k", "l", "m", "n", "o", "p", "q", "r", "s",
    "t", "u", "v", "w", "x", "y", "z", "{", "|", "}", "~"
  >>

\* ord(c) for a printable ASCII character c: " " is 32, "~" is 126.
Ord(c) == 31 + (CHOOSE i \in 1..Len(Ascii) : Ascii[i] = c)

\* The str whose characters are the one-character strings of cs.
S(cs) == [i \in 1..Len(cs) |-> Ord(cs[i])]

\* "".join(parts) over a list of strs.
RECURSIVE Concat(_)
Concat(parts) ==
  IF parts = <<>> THEN <<>> ELSE Head(parts) \o Concat(Tail(parts))

\* All sequences over set E of length 0..n.
SeqsUpTo(E, n) == UNION {[1..k -> E] : k \in 0..n}

(***************************************************************************)
(* Character classes.  They are exact on ASCII, on the Latin-1 supplement, *)
(* on the values of the accent-command table and on the CJK Unified        *)
(* Ideographs block, which is what the modelled inputs and everything      *)
(* computed from them are made of.                                         *)
(***************************************************************************)

\* str.isspace() / regex \s on the modelled range.
IsSpace(c) == c \in {9, 10, 11, 12, 13, 28, 29, 30, 31, 32, 133, 160}

\* [A-Za-z]
IsAsciiLetter(c) == c \in 65..90 \/ c \in 97..122

\* [0-9]
IsDigit(c) == c \in 48..57

\* str.isupper() of one character.
IsUpperCh(c) == c \in 65..90 \/ (c \in 192..222 /\ c # 215) \/ c \in {321, 330, 7838}

\* str.islower() of one character.
IsLowerCh(c) ==
  \/ c \in 97..122
  \/ c \in {170, 181, 186}
  \/ (c \in 223..255 /\ c # 247)
  \/ c \in {305, 322, 331, 567}

\* _has_cjk's range test for one character: "\u4e00" <= ch <= "\u9fff".
IsCjk(c) == c \in 19968..40959

\* str.isalpha() of one character.
IsAlpha(c) == IsUpperCh(c) \/ IsLowerCh(c) \/ IsCjk(c)

\* str.lower() of one character.
LowerCh(c) ==
  IF c \in 65..90 \/ (c \in 192..222 /\ c # 215) THEN c + 32
  ELSE IF c \in {321, 330} THEN c + 1
  ELSE IF c = 7838 THEN 223
  ELSE c

\* str.upper() of one character that maps to one character (223 and the
\* characters with no single-character upper case keep their value).
UpperCh(c) ==
  IF c \in 97..122 \/ (c \in 224..254 /\ c # 247) THEN c - 32
  ELSE IF c \in {322, 331} THEN c - 1
  ELSE IF c = 255 THEN 376
  ELSE IF c = 181 THEN 924
  ELSE IF c = 305 THEN 73
  ELSE c

(***************************************************************************)
(* str methods.                                                            *)
(***************************************************************************)

\* str.lower()
Lower(s) == [i \in 1..Len(s) |-> LowerCh(s[i])]

\* c in s
Contains(s, c) == \E i \in 1..Len(s) : s[i] = c

\* s.startswith(p)
StartsWith(s, p) == Len(s) >= Len(p) /\ SubSeq(s, 1, Len(p)) = p

\* s.endswith(p)
EndsWith(s, p) == Len(s) >= Len(p) /\ SubSeq(s, Len(s) - Len(p) + 1, Len(s)) = p

\* s[i:] with a 1-based i.
From(s, i) == SubSeq(s, i, Len(s))

\* s.lstrip() for the characters of set cs (whitespace when cs is the whitespace set).
RECURSIVE LStripSet(_, _)
LStripSet(s, cs) ==
  IF s # <<>> /\ Head(s) \in cs THEN LStripSet(Tail(s), cs) ELSE s

\* s.rstrip(chars)
RECURSIVE RStripSet(_, _)
RStripSet(s, cs) ==
  IF s # <<>> /\ s[Len(s)] \in cs THEN RStripSet(SubSeq(s, 1, Len(s) - 1), cs) ELSE s

Whitespace == {9, 10, 11, 12, 13, 28, 29, 30, 31, 32, 133, 160}

\* s.strip()
Strip(s) == RStripSet(LStripSet(s, Whitespace), Whitespace)

\* The position after the maximal run of characters satisfying P that
\* starts at position i (i itself when s[i] does not satisfy P).
RunEnd(s, i, P(_)) ==
  CHOOSE e \in i..(Len(s) + 1) :
    /\ \A j \in i..(e - 1) : P(s[j])
    /\ e = Len(s) + 1 \/ ~P(s[e])

NotSpace(c) == ~IsSpace(c)

\* s.split(): the maximal runs of non-whitespace characters, in order.
RECURSIVE SplitFrom(_, _)
SplitFrom(s, i) ==
  LET b == RunEnd(s, i, IsSpace)
      e == RunEnd(s, b, NotSpace)
  IN  IF b > Len(s) THEN <<>> ELSE <<SubSeq(s, b, e - 1)>> \o SplitFrom(s, e)

Split(s) == SplitFrom(s, 1)

\* " ".join(parts)
RECURSIVE JoinSp(_)
JoinSp(parts) ==
  IF parts = <<>> THEN <<>>
  ELSE IF Len(parts) = 1 THEN parts[1]
  ELSE parts[1] \o <<32>> \o JoinSp(Tail(parts))

(***************************************************************************)
(* html.unescape, as the standard library computes it.  The named          *)
(* references are those of the HTML5 table whose names are made of the     *)
(* letters A B a b l m o p, the letters of the modelled text inputs.       *)
(***************************************************************************)
Html5 ==
  { <<S(<<"a", "m", "p">>), <<38>>>>,
    <<S(<<"a", "m", "p", ";">>), <<38>>>>,
    <<S(<<"a", "p", ";">>), <<8776>>>>,
    <<S(<<"l", "a", "p", ";">>), <<10885>>>>,
    <<S(<<"l", "l", ";">>), <<8810>>>>,
    <<S(<<"m", "a", "p", ";">>), <<8614>>>>,
    <<S(<<"m", "p", ";">>), <<8723>>>>,
    <<S(<<"p", "m", ";">>), <<177>>>> }

InHtml5(n) == \E e \in Html5 : e[1] = n

Html5Value(n) == (CHOOSE e \in Html5 : e[1] = n)[2]

\* _invalid_charrefs for 0x80..0x9f (the Windows-1252 repertoire).
InvalidCharrefs ==
  << 8364, 129, 8218, 402, 8222, 8230, 8224, 8225, 710, 8240, 352, 8249,
     338, 141, 381, 143, 144, 8216, 8217, 8220, 8221, 8226, 8211, 8212,
     732, 8482, 353, 8250, 339, 157, 382, 376 >>

\* num in _invalid_codepoints
IsInvalidCodepoint(num) ==
  \/ num \in 1..8 \/ num = 11 \/ num \in 14..31 \/ num \in 127..159
  \/ num \in 64976..65007
  \/ (num <= 1114111 /\ (num % 65536) \in {65534, 65535})

\* The value of a digit character in base 10 or 16.
DigitValue(c) ==
  IF c \in 48..57 THEN c - 48 ELSE IF c \in 97..102 THEN c - 87 ELSE c - 55

IsHexDigit(c) == c \in 48..57 \/ c \in 97..102 \/ c \in 65..70

\* int(digits, base)
RECURSIVE ParseInt(_, _)
ParseInt(ds, base) ==
  IF ds = <<>> THEN 0
  ELSE ParseInt(SubSeq(ds, 1, Len(ds) - 1), base) * base + DigitValue(ds[Len(ds)])

\* _replace_charref for a numeric reference with number num.
NumericCharref(num) ==
  IF num = 0 THEN <<65533>>
  ELSE IF num = 13 THEN <<13>>
  ELSE IF num \in 128..159 THEN <<InvalidCharrefs[num - 127]>>
  ELSE IF num \in 55296..57343 \/ num > 1114111 THEN <<65533>>
  ELSE IF IsInvalidCodepoint(num) THEN <<>>
  ELSE <<num>>

\* _replace_charref for a named reference n (group 1 of the match).
NamedCharref(n) ==
  IF InHtml5(n) THEN Html5Value(n)
  ELSE LET xs == {x \in 2..(Len(n) - 1) : InHtml5(SubSeq(n, 1, x))}
       IN  IF xs = {} THEN <<38>> \o n
           ELSE LET x == CHOOSE y \in xs : \A z \in xs : z <= y
                IN  Html5Value(SubSeq(n, 1, x)) \o From(n, x + 1)

\* [^\t\n\f <&#;]
IsNameChar(c) == c \notin {9, 10, 12, 32, 60, 38, 35, 59}

\* _charref.sub(_replace_charref, s) from position i on.
RECURSIVE UnescapeFrom(_, _)
UnescapeFrom(s, i) ==
  IF i > Len(s) THEN <<>>
  ELSE IF s[i] # 38 THEN <<s[i]>> \o UnescapeFrom(s, i + 1)
  ELSE IF i + 1 <= Len(s) /\ s[i + 1] = 35
    THEN LET hex  == i + 2 <= Len(s) /\ s[i + 2] \in {88, 120}
             d0   == IF hex THEN i + 3 ELSE i + 2
             d1   == IF hex THEN RunEnd(s, d0, IsHexDigit) ELSE RunEnd(s, d0, IsDigit)
             semi == d1 <= Len(s) /\ s[d1] = 59
             stop == IF semi THEN d1 + 1 ELSE d1
         IN  IF d1 = d0 THEN <<38>> \o UnescapeFrom(s, i + 1)
             ELSE NumericCharref(ParseInt(SubSeq(s, d0, d1 - 1), IF hex THEN 16 ELSE 10))
                    \o UnescapeFrom(s, stop)
    ELSE LET e0   == RunEnd(s, i + 1, IsNameChar)
             e    == IF e0 > i + 33 THEN i + 33 ELSE e0
             semi == e <= Len(s) /\ s[e] = 59
             stop == IF semi THEN e + 1 ELSE e
         IN  IF e = i + 1 THEN <<38>> \o UnescapeFrom(s, i + 1)
             ELSE NamedCharref(SubSeq(s, i + 1, stop - 1)) \o UnescapeFrom(s, stop)

\* html.unescape(s)
unescape(s) == IF ~Contains(s, 38) THEN s ELSE UnescapeFrom(s, 1)

(***************************************************************************)
(* TextRepair: repair_mojibake.                                            *)
(***************************************************************************)

\* bytes.decode("utf-8") from position i on; -1 marks a UnicodeDecodeError.
RECURSIVE Utf8DecodeFrom(_, _)
Utf8DecodeFrom(bs, i) ==
  IF i > Len(bs) THEN <<>>
  ELSE LET b == bs[i]
           Cont(k) == i + k <= Len(bs) /\ bs[i + k] \in 128..191
           Low(k) == bs[i + k] - 128
       IN  IF b < 128 THEN <<b>> \o Utf8DecodeFrom(bs, i + 1)
           ELSE IF b \in 194..223 /\ Cont(1)
             THEN <<(b - 192) * 64 + Low(1)>> \o Utf8DecodeFrom(bs, i + 2)
           ELSE IF /\ b \in 224..239 /\ Cont(1) /\ Cont(2)
                   /\ (b = 224 => bs[i + 1] >= 160)
                   /\ (b = 237 => bs[i + 1] <= 159)
             THEN <<(b - 224) * 4096 + Low(1) * 64 + Low(2)>>
                    \o Utf8DecodeFrom(bs, i + 3)
           ELSE IF /\ b \in 240..244 /\ Cont(1) /\ Cont(2) /\ Cont(3)
                   /\ (b = 240 => bs[i + 1] >= 144)
                   /\ (b = 244 => bs[i + 1] <= 143)
             THEN <<(b - 240) * 262144 + Low(1) * 4096 + Low(2) * 64 + Low(3)>>
                    \o Utf8DecodeFrom(bs, i + 4)
           ELSE <<-1>>

\* A signature test that every text passes.
HasMojibakeSignatureAlways(text) == TRUE

\* any("\xc2" <= ch <= "\xdf" for ch in text)
HasMojibakeSignature(text) == \E i \in 1..Len(text) : text[i] \in 194..223

\* repair_mojibake(text)
repair_mojibake(text) ==
  IF text = <<>> THEN text
  ELSE IF ~HasMojibakeSignature(text) THEN text
  ELSE IF \E i \in 1..Len(text) : text[i] > 255 THEN text
  ELSE LET decoded == Utf8DecodeFrom(text, 1)
       IN  IF \E i \in 1..Len(decoded) : decoded[i] = -1 THEN text ELSE decoded

(***************************************************************************)
(* TitleCaseNormalizer: normalize_title_case.                              *)
(***************************************************************************)

\* str.title() from position i on; prev tells whether s[i-1] is cased.
RECURSIVE TitleFrom(_, _, _)
TitleFrom(s, i, prev) ==
  IF i > Len(s) THEN <<>>
  ELSE LET c == s[i]
       IN  IF IsLowerCh(c)
             THEN <<IF prev THEN c ELSE UpperCh(c)>> \o TitleFrom(s, i + 1, TRUE)
           ELSE IF IsUpperCh(c)
             THEN <<IF prev THEN LowerCh(c) ELSE c>> \o TitleFrom(s, i + 1, TRUE)
           ELSE <<c>> \o TitleFrom(s, i + 1, FALSE)

\* str.title()
Title(s) == TitleFrom(s, 1, FALSE)

\* A normalization that capitalizes every title.
NormalizeTitleCaseAlways(title) == Title(title)

\* normalize_title_case(title)
normalize_title_case(title) ==
  IF title = <<>> THEN title
  ELSE LET alpha == SelectSeq(title, IsAlpha)
           upper == /\ \E i \in 1..Len(alpha) : IsUpperCh(alpha[i])
                    /\ \A i \in 1..Len(alpha) : ~IsLowerCh(alpha[i])
           lower == /\ \E i \in 1..Len(alpha) : IsLowerCh(alpha[i])
                    /\ \A i \in 1..Len(alpha) : ~IsUpperCh(alpha[i])
       IN  IF alpha = <<>> THEN title
           ELSE IF upper \/ lower THEN Title(title)
           ELSE title

(***************************************************************************)
(* AuthorNameParser: parse_author_name.                                    *)
(***************************************************************************)

\* _NAME_PARTICLES
NAME_PARTICLES ==
  { S(<<"v", "a", "n">>), S(<<"v", "o", "n">>), S(<<"d", "e">>), S(<<"d", "e", "l">>),
    S(<<"d", "e", "l", "l", "a">>), S(<<"d", "e", "r">>), S(<<"d", "e", "n">>), S(<<"d", "i">>),
    S(<<"d", "u">>), S(<<"d", "a", "s">>), S(<<"d", "o", "s">>), S(<<"d", "o">>),
    S(<<"d", "a">>), S(<<"l", "e">>), S(<<"l", "a">>), S(<<"e", "l">>),
    S(<<"a", "l">>), S(<<"b", "i", "n">>), S(<<"i", "b", "n">>), S(<<"t", "e", "n">>),
    S(<<"t", "e", "r">>), S(<<"h", "e", "t">>) }

\* An author dict with the two name parts.
Author(g, f) == [given |-> g, family |-> f]

\* A scan for the particle that starts at the first word.
FamilyStartFromFirst(parts) ==
  LET n  == Len(parts)
      ps == {i \in 1..(n - 1) : parts[i] \in NAME_PARTICLES}
  IN  IF ps = {} THEN n ELSE CHOOSE i \in ps : \A j \in ps : i <= j

\* family_start: the first index in 1..n-2 (0-based) holding a particle,
\* else the last index; 1-based here.
FamilyStart(parts) ==
  LET n  == Len(parts)
      ps == {i \in 2..(n - 1) : parts[i] \in NAME_PARTICLES}
  IN  IF ps = {} THEN n ELSE CHOOSE i \in ps : \A j \in ps : i <= j

\* parse_author_name(name)
parse_author_name(name0) ==
  LET name  == Strip(name0)
      parts == Split(name)
  IN  IF name = <<>> THEN Author(<<>>, <<>>)
      ELSE IF Len(parts) = 1 THEN Author(<<>>, parts[1])
      ELSE LET k == FamilyStart(parts)
           IN  Author(JoinSp(SubSeq(parts, 1, k - 1)), JoinSp(SubSeq(parts, k, Len(parts))))

(***************************************************************************)
(* AuthorNameRepairPipeline, stage 1: _clean_raw_author_name.              *)
(***************************************************************************)

\* The strings _ANNOTATION_RE accepts between the parentheses, lowercased
\* (the pattern is compiled with re.IGNORECASE).
AnnotationWords ==
  { S(<<"h", "e", "/", "h", "i", "m">>), S(<<"s", "h", "e", "/", "h", "e", "r">>), S(<<"t", "h", "e", "y", "/", "t", "h", "e", "m">>), S(<<"p", "h", "d">>),
    S(<<"p", "h", ".", "d">>), S(<<"p", "h", "d", ".">>), S(<<"p", "h", ".", "d", ".">>), S(<<"d", "r">>),
    S(<<"d", "r", ".">>), S(<<"j", "r">>), S(<<"j", "r", ".">>), S(<<"s", "r">>),
    S(<<"s", "r", ".">>), S(<<"m", "d">>), S(<<"m", ".", "d">>), S(<<"m", "d", ".">>),
    S(<<"m", ".", "d", ".">>), S(<<"m", "s", "c">>), S(<<"m", ".", "s", "c">>), S(<<"m", "s", "c", ".">>),
    S(<<"m", ".", "s", "c", ".">>) }

\* [A-Za-z\u0080-\uffff-], the characters of a parenthesized nickname.
IsParenNameChar(c) == IsAsciiLetter(c) \/ c \in 128..65535 \/ c = 45

NotCloseParen(c) == c # 41

\* The position after a match of \s*\(<content>\)\s* that starts at p, or 0
\* when the pattern does not match at p.  kind "annotation" is
\* _ANNOTATION_RE, kind "name" is _PAREN_NAME_RE.
ParenMatchEnd(s, p, kind) ==
  LET q == RunEnd(s, p, IsSpace)
  IN  IF ~(q <= Len(s) /\ s[q] = 40) THEN 0
      ELSE LET c == IF kind = "name" THEN RunEnd(s, q + 1, IsParenNameChar)
                    ELSE RunEnd(s, q + 1, NotCloseParen)
               content == SubSeq(s, q + 1, c - 1)
               ok == /\ c <= Len(s) /\ s[c] = 41
                     /\ IF kind = "name" THEN content # <<>>
                        ELSE Lower(content) \in AnnotationWords
           IN  IF ok THEN RunEnd(s, c + 1, IsSpace) ELSE 0

\* <pattern>.sub(" ", s) from position p on.
RECURSIVE SubParenFrom(_, _, _)
SubParenFrom(s, p, kind) ==
  IF p > Len(s) THEN <<>>
  ELSE LET e == ParenMatchEnd(s, p, kind)
       IN  IF e = 0 THEN <<s[p]>> \o SubParenFrom(s, p + 1, kind)
           ELSE <<32>> \o SubParenFrom(s, e, kind)

\* _BIBTEX_ACCENT_MAP in insertion order, which is the order of the
\* alternatives of _BIBTEX_CMD_RE: <<command name, replacement>>.
BIBTEX_ACCENT_MAP ==
  << <<S(<<"L">>), 321>>, <<S(<<"l">>), 322>>, <<S(<<"O">>), 216>>,
     <<S(<<"o">>), 248>>, <<S(<<"A", "E">>), 198>>, <<S(<<"a", "e">>), 230>>,
     <<S(<<"A", "A">>), 197>>, <<S(<<"a", "a">>), 229>>, <<S(<<"S", "S">>), 7838>>,
     <<S(<<"s", "s">>), 223>>, <<S(<<"D", "H">>), 208>>, <<S(<<"d", "h">>), 240>>,
     <<S(<<"T", "H">>), 222>>, <<S(<<"t", "h">>), 254>>, <<S(<<"N", "G">>), 330>>,
     <<S(<<"n", "g">>), 331>>, <<S(<<"i">>), 305>>, <<S(<<"j">>), 567>> >>

\* (?=[A-Za-z\u0080-\uffff])
IsAccentLookahead(c) == IsAsciiLetter(c) \/ c \in 128..65535

\* The alternatives of _BIBTEX_CMD_RE that match at the backslash at p.
AccentMatches(s, p) ==
  {k \in 1..Len(BIBTEX_ACCENT_MAP) :
     LET n == BIBTEX_ACCENT_MAP[k][1]
     IN  /\ p + Len(n) + 1 <= Len(s)
         /\ SubSeq(s, p + 1, p + Len(n)) = n
         /\ IsAccentLookahead(s[p + Len(n) + 1])}

\* _BIBTEX_CMD_RE.sub(_replace_bibtex, s) from position p on.
RECURSIVE SubAccentFrom(_, _)
SubAccentFrom(s, p) ==
  IF p > Len(s) THEN <<>>
  ELSE LET ks == IF s[p] = 92 THEN AccentMatches(s, p) ELSE {}
       IN  IF ks = {} THEN <<s[p]>> \o SubAccentFrom(s, p + 1)
           ELSE LET k == CHOOSE x \in ks : \A y \in ks : x <= y
                IN  <<BIBTEX_ACCENT_MAP[k][2]>>
                      \o SubAccentFrom(s, p + Len(BIBTEX_ACCENT_MAP[k][1]) + 1)

NotAsterisk(c) == c # 42

\* A cleaning that leaves the whitespace as it finds it.
CleanRawNameKeepingSpaces(name) ==
  SubAccentFrom(
    SubParenFrom(
      SubParenFrom(SelectSeq(unescape(name), NotAsterisk), 1, "annotation"),
      1, "name"),
    1)

\* _clean_raw_author_name(name)
clean_raw_author_name(name) ==
  JoinSp(Split(
    SubAccentFrom(
      SubParenFrom(
        SubParenFrom(SelectSeq(unescape(name), NotAsterisk), 1, "annotation"),
        1, "name"),
      1)))

(***************************************************************************)
(* AuthorNameRepairPipeline, stages 2 to 6.  An author is a record         *)
(* [given, family]; a stage that raises returns [raised |-> <exception>].  *)
(***************************************************************************)

\* Group 1 of ^([A-Za-z]\.?)\s+(.+)$ in a family the pattern matches.
InitialOfFamily(family) == SubSeq(family, 1, IF family[2] = 46 THEN 2 ELSE 1)

\* The last position of a match of (.+)$ that starts at q, or 0 when there
\* is none: "." matches every character but "\n", and "$" matches at the
\* end and before a final "\n".
InitialRestEnd(family, q) ==
  IF q > Len(family) THEN 0
  ELSE IF \A j \in q..Len(family) : family[j] # 10 THEN Len(family)
  ELSE IF /\ family[Len(family)] = 10
          /\ q <= Len(family) - 1
          /\ \A j \in q..(Len(family) - 1) : family[j] # 10
    THEN Len(family) - 1
  ELSE 0

\* The position (1-based) where group 2 of ^([A-Za-z]\.?)\s+(.+)$ starts in
\* family, or 0 when the pattern does not match: \s+ takes the longest run
\* of whitespace that leaves a match for (.+)$.
MisplacedInitialRest(family) ==
  IF ~(Len(family) >= 1 /\ IsAsciiLetter(family[1])) THEN 0
  ELSE LET p  == IF Len(family) >= 2 /\ family[2] = 46 THEN 3 ELSE 2
           e  == RunEnd(family, p, IsSpace)
           qs == {q \in (p + 1)..e : InitialRestEnd(family, q) # 0}
       IN  IF qs = {} THEN 0 ELSE CHOOSE q \in qs : \A x \in qs : x <= q

\* A move that puts the initial in front of given.
FixMisplacedInitialInFront(author) ==
  IF MisplacedInitialRest(author.family) = 0 THEN author
  ELSE Author(Strip(InitialOfFamily(author.family) \o <<32>> \o author.given),
              SubSeq(author.family, MisplacedInitialRest(author.family),
                     InitialRestEnd(author.family, MisplacedInitialRest(author.family))))

\* _fix_misplaced_initial(author)
fix_misplaced_initial(author) ==
  LET family == author.family
      given  == author.given
      r      == MisplacedInitialRest(family)
  IN  IF r # 0
        THEN LET initial     == InitialOfFamily(family)
                 real_family == SubSeq(family, r, InitialRestEnd(family, r))
                 new_given   == IF given # <<>> THEN Strip(given \o <<32>> \o initial)
                                ELSE initial
             IN  Author(new_given, real_family)
        ELSE author

\* A scan that finds the last given word only.
ParticleStartLastOnly(given_words) ==
  IF Len(given_words) >= 2 /\ Lower(given_words[Len(given_words)]) \in NAME_PARTICLES
    THEN Len(given_words)
  ELSE 0

\* particle_start: the first index of the maximal run of trailing given
\* words that are particles, never index 0 (1-based: never 1); 0 for None.
ParticleStart(given_words) ==
  LET n  == Len(given_words)
      ok == {i \in 2..n : \A j \in i..n : Lower(given_words[j]) \in NAME_PARTICLES}
  IN  IF ok = {} THEN 0 ELSE CHOOSE i \in ok : \A j \in ok : i <= j

\* _fix_misplaced_particle(author)
fix_misplaced_particle(author) ==
  LET given       == author.given
      family      == author.family
      given_words == Split(given)
      ps          == ParticleStart(given_words)
  IN  IF given = <<>> \/ family = <<>> THEN author
      ELSE IF Len(given_words) < 2 THEN author
      ELSE IF ps = 0 THEN author
      ELSE Author(JoinSp(SubSeq(given_words, 1, ps - 1)),
                  JoinSp(SubSeq(given_words, ps, Len(given_words))) \o <<32>> \o family)

\* _SINGLE_LETTER_RE.match(s): ^[A-Za-z]\.?$, where "$" also matches
\* before a final "\n".
IsSingleLetter(s) ==
  \/ Len(s) = 1 /\ IsAsciiLetter(s[1])
  \/ Len(s) = 2 /\ IsAsciiLetter(s[1]) /\ s[2] \in {46, 10}
  \/ Len(s) = 3 /\ IsAsciiLetter(s[1]) /\ s[2] = 46 /\ s[3] = 10

NotSingleLetter(s) == ~IsSingleLetter(s)

\* A rearrangement that also empties the family of an author whose given
\* holds initials only.
FixSingleLetterFamilyAnyGiven(author) ==
  IF ~IsSingleLetter(author.family) \/ author.given = <<>> THEN author
  ELSE IF SelectSeq(Split(author.given), IsSingleLetter) = <<>> THEN author
  ELSE Author(JoinSp(SelectSeq(Split(author.given), IsSingleLetter) \o <<author.family>>),
              JoinSp(SelectSeq(Split(author.given), NotSingleLetter)))

\* _fix_single_letter_family(author)
fix_single_letter_family(author) ==
  LET family        == author.family
      given         == author.given
      tokens        == Split(given)
      name_parts    == SelectSeq(tokens, NotSingleLetter)
      initial_parts == SelectSeq(tokens, IsSingleLetter)
  IN  IF ~IsSingleLetter(family) \/ given = <<>> THEN author
      ELSE IF initial_parts = <<>> THEN author
      ELSE IF name_parts = <<>> THEN author
      ELSE Author(JoinSp(initial_parts \o <<family>>), JoinSp(name_parts))

\* _fix_leading_hyphen_family(author); tokens[-1] raises IndexError when
\* given holds no token.
fix_leading_hyphen_family(author) ==
  LET family == author.family
      given  == author.given
      tokens == Split(given)
  IN  IF ~StartsWith(family, <<45>>) \/ given = <<>> THEN author
      ELSE IF tokens = <<>> THEN [raised |-> "IndexError"]
      ELSE Author(JoinSp(SubSeq(tokens, 1, Len(tokens) - 1)), tokens[Len(tokens)] \o family)

\* any(c.isalpha() for c in s)
HasAlpha(s) == \E i \in 1..Len(s) : IsAlpha(s[i])

\* A junk test that looks for letters only.
IsJunkWithoutLetters(s) == s # <<>> /\ ~HasAlpha(s)

\* _is_junk(s)
is_junk(s) ==
  IF s = <<>> THEN FALSE
  ELSE IF Contains(s, 64) \/ StartsWith(s, <<123>>) \/ EndsWith(s, <<125>>) THEN TRUE
  ELSE IF ~HasAlpha(s) THEN TRUE
  ELSE FALSE

\* A clearing that does not parse the given in place of a missing family.
FixPunctuationWithoutReparse(author) ==
  Author(IF is_junk(author.given) THEN <<>> ELSE author.given,
         IF is_junk(author.family) THEN <<>> ELSE author.family)

\* _fix_punctuation_only_fields(author)
fix_punctuation_only_fields(author) ==
  LET given0 == author.given
      family == author.family
      given  == IF is_junk(given0) THEN <<>> ELSE given0
  IN  IF family = <<>> \/ is_junk(family)
        THEN IF given # <<>> /\ HasAlpha(given) THEN parse_author_name(given)
             ELSE IF is_junk(family) THEN Author(<<>>, <<>>)
             ELSE Author(given, family)
        ELSE Author(given, family)

(***************************************************************************)
(* TextRepair and Slugifier: normalize_text, slugify, slugify_author.      *)
(***************************************************************************)

\* unicodedata.normalize("NFKD", ch).encode("ascii", "ignore") for the
\* characters U+00A0..U+00FF, in code point order.
NfkdAsciiLatin1 ==
  <<
     <<32>>, <<>>, <<>>, <<>>, <<>>, <<>>, <<>>, <<>>,
     <<32>>, <<>>, <<97>>, <<>>, <<>>, <<>>, <<>>, <<32>>,
     <<>>, <<>>, <<50>>, <<51>>, <<32>>, <<>>, <<>>, <<>>,
     <<32>>, <<49>>, <<111>>, <<>>, <<49, 52>>, <<49, 50>>, <<51, 52>>, <<>>,
     <<65>>, <<65>>, <<65>>, <<65>>, <<65>>, <<65>>, <<>>, <<67>>,
     <<69>>, <<69>>, <<69>>, <<69>>, <<73>>, <<73>>, <<73>>, <<73>>,
     <<>>, <<78>>, <<79>>, <<79>>, <<79>>, <<79>>, <<79>>, <<>>,
     <<>>, <<85>>, <<85>>, <<85>>, <<85>>, <<89>>, <<>>, <<>>,
     <<97>>, <<97>>, <<97>>, <<97>>, <<97>>, <<97>>, <<>>, <<99>>,
     <<101>>, <<101>>, <<101>>, <<101>>, <<105>>, <<105>>, <<105>>, <<105>>,
     <<>>, <<110>>, <<111>>, <<111>>, <<111>>, <<111>>, <<111>>, <<>>,
     <<>>, <<117>>, <<117>>, <<117>>, <<117>>, <<121>>, <<>>, <<121>>
  >>

\* The ASCII characters one character leaves after NFKD decomposition and
\* encode("ascii", "ignore"): itself for ASCII, the base letter for an
\* accented Latin-1 letter, nothing for a character with no decomposition.
NfkdAscii(c) ==
  IF c < 128 THEN <<c>>
  ELSE IF c \in 160..255 THEN NfkdAsciiLatin1[c - 159]
  ELSE <<>>

\* unidecode's transliteration of one character, for the characters the
\* modelled texts can hold that NFKD leaves nothing of.
UnidecodeCh(c) ==
  IF c < 128 THEN <<c>>
  ELSE IF c \in 160..255 /\ NfkdAsciiLatin1[c - 159] # <<>> THEN NfkdAsciiLatin1[c - 159]
  ELSE IF c = 248 THEN <<111>>
  ELSE IF c = 216 THEN <<79>>
  ELSE IF c = 322 THEN <<108>>
  ELSE IF c = 321 THEN <<76>>
  ELSE IF c = 169 THEN <<40, 99, 41>>
  ELSE IF c = 177 THEN <<43, 45>>
  ELSE IF c = 33391 THEN S(<<"L", "i", "a", "n", "g", " ">>)
  ELSE IF c = 21326 THEN S(<<"H", "u", "a", " ">>)
  ELSE <<>>

\* [f(c) for c in s] joined.
RECURSIVE FlatMapNfkd(_)
FlatMapNfkd(s) == IF s = <<>> THEN <<>> ELSE NfkdAscii(Head(s)) \o FlatMapNfkd(Tail(s))

RECURSIVE FlatMapUnidecode(_)
FlatMapUnidecode(s) ==
  IF s = <<>> THEN <<>> ELSE UnidecodeCh(Head(s)) \o FlatMapUnidecode(Tail(s))

\* normalize_text(text); ud tells whether the unidecode package can be imported.
normalize_text(text, ud) ==
  LET result == FlatMapNfkd(text)
  IN  IF Strip(result) = <<>> /\ Strip(text) # <<>> /\ ud THEN FlatMapUnidecode(text)
      ELSE result

\* [a-z0-9]
IsSlugChar(c) == c \in 97..122 \/ c \in 48..57

NotSlugChar(c) == ~IsSlugChar(c)

\* re.sub(r"[^a-z0-9]+", "-", text) from position i on.
RECURSIVE DashRunsFrom(_, _)
DashRunsFrom(s, i) ==
  IF i > Len(s) THEN <<>>
  ELSE IF IsSlugChar(s[i]) THEN <<s[i]>> \o DashRunsFrom(s, i + 1)
  ELSE <<45>> \o DashRunsFrom(s, RunEnd(s, i, NotSlugChar))

\* A slugify that leaves the hyphens at both ends.
SlugifyUnstripped(text, ud) == DashRunsFrom(normalize_text(Lower(text), ud), 1)

\* slugify(text)
slugify(text, ud) ==
  LET t1 == normalize_text(Lower(text), ud)
      t2 == DashRunsFrom(t1, 1)
  IN  RStripSet(LStripSet(t2, {45}), {45})

\* _has_cjk(text)
has_cjk(text) == \E i \in 1..Len(text) : IsCjk(text[i])

NotBlank(c) == c # 32

\* _romanize_cjk(text): unidecode(text).replace(" ", "").lower(), or "" when
\* unidecode cannot be imported.
romanize_cjk(text, ud) ==
  IF ud THEN Lower(SelectSeq(FlatMapUnidecode(text), NotBlank)) ELSE <<>>

\* The text with the given name first.
SlugTextGivenFirst(family, given) == Strip(given \o <<32>> \o family)

\* f"{family} {given}".strip()
SlugText(family, given) == Strip(family \o <<32>> \o given)

\* dict.get(k, "") for a dict d.
GetStr(d, k) == IF k \in DOMAIN d THEN d[k] ELSE <<>>

\* slugify_author(author)
slugify_author(author, ud) ==
  LET given0  == Strip(GetStr(author, "given"))
      family0 == Strip(GetStr(author, "family"))
      family  == IF has_cjk(family0) THEN romanize_cjk(family0, ud) ELSE family0
      given   == IF has_cjk(given0) THEN romanize_cjk(given0, ud) ELSE given0
      slug    == slugify(SlugText(family, given), ud)
  IN  IF slug # <<>> THEN slug ELSE S(<<"u", "n", "k", "n", "o", "w", "n">>)

(***************************************************************************)
(* VenueClassifier: get_venue_type.                                        *)
(***************************************************************************)

\* _VENUES, the registry loaded from venues.yaml: a conference, a journal
\* and an entry that states no type.
VENUES ==
  ( S(<<"i", "c", "m", "l">>) :> [type |-> S(<<"c", "o", "n", "f", "e", "r", "e", "n", "c", "e">>)] ) @@
  ( S(<<"j", "m", "l", "r">>) :> [type |-> S(<<"j", "o", "u", "r", "n", "a", "l">>)] ) @@
  ( S(<<"a", "l", "t">>) :> [name |-> S(<<"A", "L", "T">>)] )

\* The default of get_venue_type.
DefaultVenueType == S(<<"w", "o", "r", "k", "s", "h", "o", "p">>)

\* get_venue_type(venue_slug)
get_venue_type(venue_slug) ==
  IF venue_slug \in DOMAIN VENUES /\ "type" \in DOMAIN VENUES[venue_slug]
    THEN VENUES[venue_slug].type
    ELSE DefaultVenueType

(***************************************************************************)
(* clean_code_url.                                                         *)
(***************************************************************************)

\* The position after https?:// when it starts at p, or 0.
SchemeEnd(s, p) ==
  IF p + 7 <= Len(s) /\ SubSeq(s, p, p + 7) = S(<<"h", "t", "t", "p", "s", ":", "/", "/">>)
    THEN p + 8
  ELSE IF p + 6 <= Len(s) /\ SubSeq(s, p, p + 6) = S(<<"h", "t", "t", "p", ":", "/", "/">>)
    THEN p + 7
  ELSE 0

\* The position of the first character c at or after p, or 0.
FirstAt(s, p, c) ==
  LET ps == {i \in p..Len(s) : s[i] = c}
  IN  IF ps = {} THEN 0 ELSE CHOOSE i \in ps : \A j \in ps : i <= j

\* A match of \((https?://[^)]+)\) at p: <<start of the URL, position of
\* the closing parenthesis>>, or <<0, 0>>.
MdUrlAt(s, p) ==
  IF ~(p <= Len(s) /\ s[p] = 40) THEN <<0, 0>>
  ELSE LET e == SchemeEnd(s, p + 1)
           c == IF e = 0 THEN 0 ELSE FirstAt(s, e, 41)
       IN  IF e # 0 /\ c > e THEN <<p + 1, c>> ELSE <<0, 0>>

\* A match of _MD_LINK_RE at the "[" at p: the optional inner bracket group
\* is tried first, then the pattern without it.
MdLinkAt(s, p) ==
  LET a  == FirstAt(s, p + 1, 93)
      b  == IF a = 0 THEN 0 ELSE FirstAt(s, a + 1, 93)
      m1 == IF b = 0 THEN <<0, 0>> ELSE MdUrlAt(s, b + 1)
      m2 == IF a = 0 THEN <<0, 0>> ELSE MdUrlAt(s, a + 1)
  IN  IF m1[1] # 0 THEN m1 ELSE m2

\* _MD_LINK_RE.findall(raw) from position p on.
RECURSIVE MdLinksFrom(_, _)
MdLinksFrom(s, p) ==
  IF p > Len(s) THEN <<>>
  ELSE IF s[p] # 91 THEN MdLinksFrom(s, p + 1)
  ELSE LET m == MdLinkAt(s, p)
       IN  IF m[1] = 0 THEN MdLinksFrom(s, p + 1)
           ELSE <<SubSeq(s, m[1], m[2] - 1)>> \o MdLinksFrom(s, m[2] + 1)

\* sub in s
HasSubstring(s, sub) ==
  \E i \in 1..(Len(s) - Len(sub) + 1) : SubSeq(s, i, i + Len(sub) - 1) = sub

IsGitHost(url) ==
  HasSubstring(url, S(<<"g", "i", "t", "h", "u", "b", ".", "c", "o", "m">>)) \/ HasSubstring(url, S(<<"g", "i", "t", "l", "a", "b", ".", "c", "o", "m">>))

\* re.search(r"(https?://\S+)", raw): the match, or <<>> when there is none.
BareUrl(s) ==
  LET ps == {i \in 1..Len(s) :
               LET e == SchemeEnd(s, i) IN e # 0 /\ e <= Len(s) /\ ~IsSpace(s[e])}
  IN  IF ps = {} THEN <<>>
      ELSE LET i == CHOOSE x \in ps : \A y \in ps : x <= y
           IN  SubSeq(s, i, RunEnd(s, i, NotSpace) - 1)

\* clean_code_url(raw)
clean_code_url(raw0) ==
  LET raw  == Strip(raw0)
      urls == MdLinksFrom(raw, 1)
      git  == SelectSeq(urls, IsGitHost)
      bare == BareUrl(raw)
  IN  IF raw0 = <<>> THEN <<>>
      ELSE IF /\ StartsWith(raw, S(<<"h", "t", "t", "p", "s", ":", "/", "/">>)) \/ StartsWith(raw, S(<<"h", "t", "t", "p", ":", "/", "/">>))
              /\ ~Contains(raw, 32) /\ ~Contains(raw, 59)
        THEN raw
      ELSE IF urls # <<>> THEN (IF git # <<>> THEN git[1] ELSE urls[1])
      ELSE IF bare # <<>> THEN RStripSet(bare, {46, 44, 59, 41})
      ELSE <<>>

(***************************************************************************)
(* BibtexKeyGenerator: _strip_latex, first_content_word, make_bibtex_key.  *)
(***************************************************************************)

\* [a-zA-Z0-9]
IsAlnum(c) == IsAsciiLetter(c) \/ IsDigit(c)

\* A match of \\[a-zA-Z]+\{([^}]*)\} at position i: <<position of the
\* opening brace, position of the closing brace>>, or <<0, 0>>.
CommandAt(s, i) ==
  IF ~(s[i] = 92 /\ i < Len(s) /\ IsAsciiLetter(s[i + 1])) THEN <<0, 0>>
  ELSE LET open == RunEnd(s, i + 1, IsAsciiLetter)
       IN  IF open > Len(s) THEN <<0, 0>>
           ELSE IF s[open] # 123 THEN <<0, 0>>
           ELSE IF FirstAt(s, open + 1, 125) = 0 THEN <<0, 0>>
           ELSE <<open, FirstAt(s, open + 1, 125)>>

\* re.sub(r"\\[a-zA-Z]+\{([^}]*)\}", r"\1", text) from position i on.
RECURSIVE UnwrapCommandsFrom(_, _)
UnwrapCommandsFrom(s, i) ==
  IF i > Len(s) THEN <<>>
  ELSE IF CommandAt(s, i)[1] = 0 THEN <<s[i]>> \o UnwrapCommandsFrom(s, i + 1)
  ELSE SubSeq(s, CommandAt(s, i)[1] + 1, CommandAt(s, i)[2] - 1)
         \o UnwrapCommandsFrom(s, CommandAt(s, i)[2] + 1)

\* The loop of _strip_latex: unwrap until the text no longer changes.
RECURSIVE UnwrapUntilFixed(_, _)
UnwrapUntilFixed(prev, text) ==
  IF prev = text THEN text ELSE UnwrapUntilFixed(text, UnwrapCommandsFrom(text, 1))

\* re.sub(r"\\[a-zA-Z]+", "", text) from position i on.
RECURSIVE DropBareCommandsFrom(_, _)
DropBareCommandsFrom(s, i) ==
  IF i > Len(s) THEN <<>>
  ELSE IF s[i] = 92 /\ i < Len(s) /\ IsAsciiLetter(s[i + 1])
    THEN DropBareCommandsFrom(s, RunEnd(s, i + 1, IsAsciiLetter))
  ELSE <<s[i]>> \o DropBareCommandsFrom(s, i + 1)

\* [^${}]
NotMathDelimiter(c) == c \notin {36, 123, 125}

\* _strip_latex(text)
strip_latex(text) ==
  SelectSeq(DropBareCommandsFrom(UnwrapUntilFixed(<<-1>>, text), 1), NotMathDelimiter)

\* The position after the (?:-[a-zA-Z0-9]+)* that follows an alphanumeric
\* run ending before position e.
RECURSIVE TokenEnd(_, _)
TokenEnd(s, e) ==
  IF e < Len(s) /\ s[e] = 45 /\ IsAlnum(s[e + 1])
    THEN TokenEnd(s, RunEnd(s, e + 1, IsAlnum))
  ELSE e

\* re.findall(r"[a-zA-Z0-9]+(?:-[a-zA-Z0-9]+)*", s) from position i on.
RECURSIVE TokensFrom(_, _)
TokensFrom(s, i) ==
  IF i > Len(s) THEN <<>>
  ELSE IF ~IsAlnum(s[i]) THEN TokensFrom(s, i + 1)
  ELSE <<SubSeq(s, i, TokenEnd(s, RunEnd(s, i, IsAlnum)) - 1)>>
         \o TokensFrom(s, TokenEnd(s, RunEnd(s, i, IsAlnum)))

\* The stopwords of first_content_word.
STOPWORDS ==
  {
    S(<<"a">>), S(<<"a", "n">>), S(<<"t", "h", "e">>), S(<<"o", "n">>), S(<<"i", "n">>),
    S(<<"a", "t">>), S(<<"o", "f">>), S(<<"f", "o", "r">>), S(<<"t", "o">>), S(<<"a", "n", "d">>),
    S(<<"o", "r">>), S(<<"w", "i", "t", "h">>), S(<<"b", "y">>), S(<<"f", "r", "o", "m">>),
    S(<<"i", "s">>), S(<<"a", "r", "e">>), S(<<"w", "a", "s">>), S(<<"w", "e", "r", "e">>),
    S(<<"b", "e">>), S(<<"b", "e", "e", "n">>), S(<<"b", "e", "i", "n", "g">>), S(<<"d", "o">>),
    S(<<"d", "o", "e", "s">>), S(<<"d", "i", "d">>), S(<<"c", "a", "n">>),
    S(<<"c", "o", "u", "l", "d">>), S(<<"w", "i", "l", "l">>), S(<<"w", "o", "u", "l", "d">>),
    S(<<"s", "h", "a", "l", "l">>), S(<<"s", "h", "o", "u", "l", "d">>), S(<<"m", "a", "y">>),
    S(<<"m", "i", "g", "h", "t">>), S(<<"m", "u", "s", "t">>), S(<<"h", "a", "v", "e">>),
    S(<<"h", "a", "s">>), S(<<"h", "a", "d">>), S(<<"n", "o", "t">>), S(<<"n", "o">>),
    S(<<"n", "o", "r">>), S(<<"b", "u", "t">>), S(<<"y", "e", "t">>), S(<<"s", "o">>),
    S(<<"i", "f">>), S(<<"t", "h", "e", "n">>), S(<<"t", "h", "a", "n">>),
    S(<<"t", "h", "a", "t">>), S(<<"t", "h", "i", "s">>), S(<<"t", "h", "e", "s", "e">>),
    S(<<"t", "h", "o", "s", "e">>), S(<<"i", "t">>), S(<<"i", "t", "s">>), S(<<"a", "s">>),
    S(<<"i", "n", "t", "o">>), S(<<"t", "h", "r", "o", "u", "g", "h">>),
    S(<<"a", "b", "o", "u", "t">>), S(<<"a", "b", "o", "v", "e">>), S(<<"b", "e", "l", "o", "w">>),
    S(<<"b", "e", "t", "w", "e", "e", "n">>), S(<<"u", "n", "d", "e", "r">>),
    S(<<"o", "v", "e", "r">>), S(<<"a", "f", "t", "e", "r">>), S(<<"b", "e", "f", "o", "r", "e">>),
    S(<<"d", "u", "r", "i", "n", "g">>), S(<<"w", "i", "t", "h", "o", "u", "t">>),
    S(<<"t", "o", "w", "a", "r", "d">>), S(<<"t", "o", "w", "a", "r", "d", "s">>),
    S(<<"h", "o", "w">>), S(<<"w", "h", "a", "t">>), S(<<"w", "h", "e", "n">>),
    S(<<"w", "h", "e", "r", "e">>), S(<<"w", "h", "i", "c", "h">>), S(<<"w", "h", "o">>),
    S(<<"w", "h", "o", "m">>), S(<<"w", "h", "y">>)
  }

\* re.sub(r"[^a-z0-9]", "", token.lower())
TokenSlug(token) == SelectSeq(Lower(token), IsSlugChar)

\* re.search(r"[a-z]", slug)
HasLetter(slug) == \E i \in 1..Len(slug) : slug[i] \in 97..122

\* A test of the first loop that accepts one-character slugs too.
IsContentSlugAnyLength(slug) == slug \notin STOPWORDS /\ HasLetter(slug)

\* The test of the first loop of first_content_word.
IsContentSlug(slug) == Len(slug) >= 2 /\ slug \notin STOPWORDS /\ HasLetter(slug)

\* The first loop from token i on: the slug returned, or "" when the loop ends.
RECURSIVE FirstContentFrom(_, _)
FirstContentFrom(tokens, i) ==
  IF i > Len(tokens) THEN <<>>
  ELSE IF IsContentSlug(TokenSlug(tokens[i])) THEN TokenSlug(tokens[i])
  ELSE FirstContentFrom(tokens, i + 1)

\* The fallback loop from token i on: the slug returned, or "" when the loop ends.
RECURSIVE FirstLetteredFrom(_, _)
FirstLetteredFrom(tokens, i) ==
  IF i > Len(tokens) THEN <<>>
  ELSE IF HasLetter(TokenSlug(tokens[i])) THEN TokenSlug(tokens[i])
  ELSE FirstLetteredFrom(tokens, i + 1)

\* The two loops and the final return over the tokens.
ContentWordOf(tokens) ==
  IF FirstContentFrom(tokens, 1) # <<>> THEN FirstContentFrom(tokens, 1)
  ELSE IF FirstLetteredFrom(tokens, 1) # <<>> THEN FirstLetteredFrom(tokens, 1)
  ELSE S(<<"p", "a", "p", "e", "r">>)

\* first_content_word(title); ud tells whether unidecode can be imported.
first_content_word(title, ud) ==
  ContentWordOf(TokensFrom(strip_latex(normalize_text(unescape(title), ud)), 1))

\* [a-z]
IsLowerAsciiLetter(c) == c \in 97..122

\* A key whose venue keeps its case.
MakeKeyVenueAsGiven(first_author_family, year, venue, title, ud) ==
  SelectSeq(Lower(normalize_text(first_author_family, ud)), IsLowerAsciiLetter)
    \o year \o venue \o <<45>> \o first_content_word(title, ud)

\* make_bibtex_key(first_author_family, year, venue, title)
make_bibtex_key(first_author_family, year, venue, title, ud) ==
  SelectSeq(Lower(normalize_text(first_author_family, ud)), IsLowerAsciiLetter)
    \o year \o Lower(venue) \o <<45>> \o first_content_word(title, ud)

(***************************************************************************)
(* RecordAssembler: normalize_paper.  A raw paper is a function from key   *)
(* names to values.  An entry of its authors list is                       *)
(* [kind |-> "dict", d |-> <the author dict>] or                           *)
(* [kind |-> "str", s |-> <the name>].                                     *)
(***************************************************************************)

\* _REQUIRED_PAPER_FIELDS
REQUIRED_PAPER_FIELDS == <<"bibtex_key", "title", "authors", "year">>

\* The keys of the dict normalize_paper returns, in the order it lists them.
CanonicalFields ==
  << "bibtex_key", "title", "authors", "year", "venue", "venue_name",
     "venue_type", "volume", "number", "pages", "abstract", "pdf_url",
     "venue_url", "doi", "openreview_url", "code_url", "source", "source_id" >>

\* A key no canonical field has, as the cvf adapter leaves in a raw paper.
ExtraKeys == {"arxiv_url"}

\* sorted(...) of every key name a modelled paper can hold.
SortedKeyNames ==
  << "abstract", "arxiv_url", "authors", "bibtex_key", "code_url", "doi",
     "number", "openreview_url", "pages", "pdf_url", "source", "source_id",
     "title", "venue", "venue_name", "venue_type", "venue_url", "volume", "year" >>

\* Whether a call's result is a raised exception.
Raised(x) == "raised" \in DOMAIN x

\* The last fix-up call, which an exception raised before it skips.
ThenFixPunctuation(c) == IF Raised(c) THEN c ELSE fix_punctuation_only_fields(c)

\* The five fix-up calls on a cleaned author, in the order of the loop body.
RepairStages(cleaned) ==
  ThenFixPunctuation(
    fix_leading_hyphen_family(
      fix_single_letter_family(
        fix_misplaced_particle(
          fix_misplaced_initial(cleaned)))))

\* The loop body for one author dict a: clean both parts, then the fix-ups.
AuthorChain(a) ==
  RepairStages(Author(clean_raw_author_name(repair_mojibake(GetStr(a, "given"))),
                      clean_raw_author_name(repair_mojibake(GetStr(a, "family")))))

\* The entry's fields under a slip that parses a bare name string.
EntryFieldsParsed(entry) ==
  IF entry.kind = "str" THEN parse_author_name(clean_raw_author_name(entry.s)) ELSE entry.d

\* What a.get reads of an author entry: the dict itself; a str has no get.
EntryFields(entry) ==
  IF entry.kind = "str" THEN [raised |-> "AttributeError"] ELSE entry.d

\* The list after an author is added under a slip that adds at the front.
PrependAuthor(acc, cleaned) == <<cleaned>> \o acc

\* _raw_authors.append(cleaned)
AppendAuthor(acc, cleaned) == Append(acc, cleaned)

RECURSIVE RepairAuthorsFrom(_, _, _)

\* The rest of the loop once entry i's fix-ups have returned or raised.
AfterStages(entries, i, acc, cleaned) ==
  IF Raised(cleaned) THEN cleaned
  ELSE RepairAuthorsFrom(entries, i + 1, AppendAuthor(acc, cleaned))

\* The rest of the loop once a.get has returned or raised for entry i.
AfterGet(entries, i, acc, a) ==
  IF Raised(a) THEN a ELSE AfterStages(entries, i, acc, AuthorChain(a))

\* The for loop over paper["authors"] from entry i on.
RepairAuthorsFrom(entries, i, acc) ==
  IF i > Len(entries) THEN [authors |-> acc]
  ELSE AfterGet(entries, i, acc, EntryFields(entries[i]))

\* The filter under a slip that keeps an author only when both parts are set.
KeepAuthorBothParts(a) == a.given # <<>> /\ a.family # <<>>

\* a.get("given") or a.get("family")
KeepAuthor(a) == a.given # <<>> \/ a.family # <<>>

\* {**a, "slug": slugify_author(a)}
WithSlug(a, ud) == [given |-> a.given, family |-> a.family, slug |-> slugify_author(a, ud)]

\* The missing list under a slip that checks the fields in sorted order.
MissingFieldsSorted(paper) ==
  SelectSeq(<<"authors", "bibtex_key", "title", "year">>, LAMBDA f : f \notin DOMAIN paper)

\* missing = [f for f in _REQUIRED_PAPER_FIELDS if f not in paper]
MissingFields(paper) ==
  SelectSeq(REQUIRED_PAPER_FIELDS, LAMBDA f : f \notin DOMAIN paper)

\* The venue_type under a slip that always classifies the venue.
VenueTypeIgnoringCaller(paper, venue) == get_venue_type(venue)

\* paper.get("venue_type", get_venue_type(venue))
VenueTypeOf(paper, venue) ==
  IF "venue_type" \in DOMAIN paper THEN paper["venue_type"] ELSE get_venue_type(venue)

\* The returned dict under a slip that copies the raw paper's other keys too.
AssembleKeepingExtras(paper, fields) ==
  [k \in DOMAIN fields \cup DOMAIN paper |-> IF k \in DOMAIN fields THEN fields[k] ELSE paper[k]]

\* The returned dict: the canonical fields and nothing else.
Assemble(paper, fields) == fields

\* [{**a, "slug": slugify_author(a)} for a in _raw_authors]
WithSlugs(raw_authors, ud) ==
  [i \in 1..Len(raw_authors) |-> WithSlug(raw_authors[i], ud)]

\* The values of the returned dict, given the authors list.
Fields(paper, authors) ==
  [k \in { CanonicalFields[i] : i \in 1..Len(CanonicalFields) } |->
     CASE k = "bibtex_key" -> paper["bibtex_key"]
       [] k = "title"      -> normalize_title_case(repair_mojibake(unescape(paper["title"])))
       [] k = "authors"    -> authors
       [] k = "year"       -> paper["year"]
       [] k = "venue_type" -> VenueTypeOf(paper, GetStr(paper, "venue"))
       [] k = "abstract"   -> repair_mojibake(GetStr(paper, "abstract"))
       [] k = "code_url"   -> clean_code_url(GetStr(paper, "code_url"))
       [] OTHER            -> GetStr(paper, k)]

\* normalize_paper from line 674 on, once the author loop has ended.
AfterLoop(paper, repaired, ud) ==
  IF Raised(repaired) THEN repaired
  ELSE Assemble(paper, Fields(paper, WithSlugs(SelectSeq(repaired.authors, KeepAuthor), ud)))

\* raise KeyError(...) with the missing list and sorted(paper.keys()).
MissingFieldsError(paper) ==
  [raised    |-> "KeyError",
   missing   |-> MissingFields(paper),
   available |-> SelectSeq(SortedKeyNames, LAMBDA k : k \in DOMAIN paper)]

\* normalize_paper(paper); ud tells whether unidecode can be imported.
normalize_paper(paper, ud) ==
  IF MissingFields(paper) # <<>> THEN MissingFieldsError(paper)
  ELSE AfterLoop(paper, RepairAuthorsFrom(paper["authors"], 1, <<>>), ud)

(***************************************************************************)
(* CollisionResolver: resolve_bibtex_collisions.                           *)
(***************************************************************************)

\* The suffix of the n-th duplicate under an off-by-one slip: 'a' + n.
CollisionSuffixOffByOne(n) == <<Ord("a") + n>>

\* suffix = chr(ord("a") + seen[key] - 1), with n = seen[key] after the increment.
CollisionSuffix(n) == <<Ord("a") + n - 1>>

\* One iteration of the loop body over acc = [seen, result].
ResolveStep(acc, key) ==
  IF key \in DOMAIN acc.seen
    THEN LET n == acc.seen[key] + 1
         IN  [seen   |-> [acc.seen EXCEPT ![key] = n],
              result |-> Append(acc.result, key \o S(<<"-">>) \o CollisionSuffix(n))]
    ELSE [seen   |-> [k \in DOMAIN acc.seen \cup {key} |->
                        IF k = key THEN 0 ELSE acc.seen[k]],
          result |-> Append(acc.result, key)]

\* The for loop, from position i on.
RECURSIVE ResolveFrom(_, _, _)
ResolveFrom(ks, i, acc) ==
  IF i > Len(ks) THEN acc ELSE ResolveFrom(ks, i + 1, ResolveStep(acc, ks[i]))

\* resolve_bibtex_collisions(keys): seen = {}, result = [], one pass, return result.
resolve_bibtex_collisions(ks) ==
  ResolveFrom(ks, 1, [seen |-> <<>>, result |-> <<>>]).result

(***************************************************************************)
(* Bounds and input pools of the collision resolver.                       *)
(***************************************************************************)
MaxKeys == 4

\* Candidate keys of one batch: plain keys and keys that already look
\* like a suffixed key.
KeyPool ==
  { S(<<"a">>), S(<<"b">>), S(<<"a", "-", "a">>), S(<<"a", "-", "b">>),
    S(<<"a", "-", "a", "-", "a">>) }

\* keys, resolved, pcK: a batch of keys, the resolver's result, the caller's
\* position.  paper, has_unidecode, result, again, pcP: a raw paper, whether
\* unidecode is installed, normalize_paper's result on the paper and on that
\* result, the caller's position.  stage, author, once, twice, pcS: a repair
\* stage, an author, the stage applied once and twice, the position.
VARIABLES keys, resolved, pcK, paper, has_unidecode, result, again, pcP,
          stage, author, once, twice, pcS, fn, arg, ret, ret2, pcF,
          mode, papers, before, pcE, jobs, records, pcW

varsK == <<keys, resolved, pcK>>

varsP == <<paper, has_unidecode, result, again, pcP>>

varsS == <<stage, author, once, twice, pcS>>

varsF == <<fn, arg, ret, ret2, pcF>>

varsE == <<mode, papers, before, pcE>>

varsW == <<jobs, records, pcW>>

vars == <<keys, resolved, pcK, paper, has_unidecode, result, again, pcP,
          stage, author, once, twice, pcS, fn, arg, ret, ret2, pcF,
          mode, papers, before, pcE, jobs, records, pcW>>

\* The value of a variable that holds no result yet.
NoResult == [none |-> TRUE]

\* No batch of keys is in hand.
IdleKeys ==
  /\ keys = <<>>
  /\ resolved = <<>>
  /\ pcK = "idle"

\* No paper is in hand.
IdlePaper ==
  /\ paper = <<>>
  /\ has_unidecode = FALSE
  /\ result = NoResult
  /\ again = NoResult
  /\ pcP = "idle"

\* No repair stage is in hand.
IdleStage ==
  /\ stage = "none"
  /\ author = Author(<<>>, <<>>)
  /\ once = NoResult
  /\ twice = NoResult
  /\ pcS = "idle"

\* No enrichment and no fetch job is in hand.
IdleBatch ==
  /\ mode = "none"
  /\ papers = <<>>
  /\ before = <<>>
  /\ pcE = "idle"
  /\ jobs = <<>>
  /\ records = <<>>
  /\ pcW = <<>>

\* No call of a text function is in hand.
IdleCall ==
  /\ fn = "none"
  /\ arg = NoResult
  /\ ret = NoResult
  /\ ret2 = NoResult
  /\ pcF = "idle"
  /\ IdleBatch

InitKeys ==
  /\ keys \in SeqsUpTo(KeyPool, MaxKeys)
  /\ resolved = <<>>
  /\ pcK = "start"
  /\ IdlePaper
  /\ IdleStage
  /\ IdleCall

\* A caller (process_volume, build_venue_legacy) resolves the batch's keys.
ResolveKeys ==
  /\ pcK = "start"
  /\ resolved' = resolve_bibtex_collisions(keys)
  /\ pcK' = "done"
  /\ UNCHANGED <<keys, varsP, varsS, varsF, varsE, varsW>>

NextKeys == ResolveKeys

SpecKeys == InitKeys /\ [][NextKeys]_vars

(***************************************************************************)
(* Claims about the collision resolver.                                    *)
(***************************************************************************)

\* C1: after collision resolution no two entries of the returned list are
\* equal (bibtex keys are unique within the batch).
C1_ResolvedKeysUnique ==
  pcK = "done" =>
    \A i, j \in 1..Len(resolved) : i # j => resolved[i] # resolved[j]

\* The number of occurrences of ks[i] before position i.
EarlierOccurrences(ks, i) == Cardinality({j \in 1..(i - 1) : ks[j] = ks[i]})

\* C9: the result has the length of the input; position i holds keys[i]
\* unchanged when keys[i] did not occur earlier, and keys[i] + "-" + letter
\* with letter = 'a' + (N-1) when it occurred N >= 1 times earlier.
C9_LeftToRightSuffix ==
  pcK = "done" =>
    /\ Len(resolved) = Len(keys)
    /\ \A i \in 1..Len(keys) :
         LET N == EarlierOccurrences(keys, i)
         IN  resolved[i] =
               IF N = 0 THEN keys[i]
               ELSE keys[i] \o <<Ord("-"), Ord("a") + (N - 1)>>

\* The spec's example ["a","a","b","a"] has been resolved, to
\* ["a","a-a","b","a-b"].
C9_Witness ==
  /\ pcK = "done"
  /\ keys = <<S(<<"a">>), S(<<"a">>), S(<<"b">>), S(<<"a">>)>>
  /\ resolved = <<S(<<"a">>), S(<<"a", "-", "a">>), S(<<"b">>), S(<<"a", "-", "b">>)>>

(***************************************************************************)
(* An adapter hands normalize_paper one raw paper; a repair run hands it   *)
(* a stored record again.                                                  *)
(***************************************************************************)

MaxAuthors == 2

MaxOptional == 2

\* The optional canonical fields.
OptionalFields ==
  { CanonicalFields[i] : i \in 1..Len(CanonicalFields) } \
    { REQUIRED_PAPER_FIELDS[i] : i \in 1..Len(REQUIRED_PAPER_FIELDS) }

\* Values a raw paper may hold under an optional or an extra key.
OptionalValues(k) ==
  CASE k = "venue"      -> { S(<<"i", "c", "m", "l">>), S(<<"a", "l", "t">>), S(<<"a", "b">>) }
    [] k = "venue_type" -> { S(<<"j", "o", "u", "r", "n", "a", "l">>) }
    [] k = "abstract"   -> { <<195, 169>>, S(<<"a", "b">>) }
    [] k = "code_url"   -> { S(<<" ", "h", "t", "t", "p", ":", "/", "/", "g", " ">>),
                             S(<<"[", "a", "]", "(", "h", "t", "t", "p", ":", "/", "/", "g", ")">>) }
    [] OTHER            -> { S(<<"a">>) }

\* Titles of raw papers: plain, upper case, escaped twice, mis-decoded.
TitlePool ==
  { S(<<"A", "b">>), S(<<"A", "B">>),
    S(<<"A", "b", " ", "&", "a", "m", "p", ";", "a", "m", "p", ";">>), <<195, 169>> }

\* An author entry that is a dict.
DictEntry(d) == [kind |-> "dict", d |-> d]

\* An author entry that is a bare name string.
StrEntry(s) == [kind |-> "str", s |-> s]

\* Author entries of raw papers: a plain pair, a pair that cleans to
\* nothing, a family with leading initials, a given with a trailing
\* particle, a pair without given, a hyphen-led family, a bare string.
AuthorEntryPool ==
  { DictEntry(Author(S(<<"A", "b">>), S(<<"L", "a">>))),
    DictEntry(Author(S(<<"*">>), S(<<"(", ")">>))),
    DictEntry(Author(S(<<"B">>), S(<<"A", " ", "B", " ", "l", "a">>))),
    DictEntry(Author(S(<<"A", "b", " ", "l", "a">>), S(<<"A", "b">>))),
    DictEntry([family |-> S(<<"A", "b">>)]),
    DictEntry(Author(<<195, 169>>, S(<<"-", "A", "b">>))),
    StrEntry(S(<<"A", "b", " ", "L", "a">>)) }

\* The mappings from a set of optional or extra keys to values.
OptionalPart(K) == { f \in [K -> UNION { OptionalValues(k) : k \in K }] :
                       \A k \in K : f[k] \in OptionalValues(k) }

\* The raw paper with the required fields req, the given title and authors,
\* and the optional part opt.
RawPaper(req, title, authors, opt) ==
  [k \in req \cup DOMAIN opt |->
     CASE k = "bibtex_key" -> S(<<"a">>)
       [] k = "title"      -> title
       [] k = "authors"    -> authors
       [] k = "year"       -> S(<<"1">>)
       [] OTHER            -> opt[k]]

\* Raw papers that vary in the keys they hold.
PapersByKeys ==
  { RawPaper(req, S(<<"A", "b">>), authors, opt) :
      req \in SUBSET { REQUIRED_PAPER_FIELDS[i] : i \in 1..Len(REQUIRED_PAPER_FIELDS) },
      authors \in { <<DictEntry(Author(S(<<"A", "b">>), S(<<"L", "a">>)))>>,
                    <<StrEntry(S(<<"A", "b", " ", "L", "a">>))>> },
      opt \in UNION { OptionalPart(K) :
                        K \in { X \in SUBSET (OptionalFields \cup ExtraKeys) :
                                  Cardinality(X) <= MaxOptional } } }

\* Raw papers that hold every required field and vary in title and authors.
PapersByContent ==
  { RawPaper({ REQUIRED_PAPER_FIELDS[i] : i \in 1..Len(REQUIRED_PAPER_FIELDS) },
             title, authors, <<>>) :
      title \in TitlePool, authors \in SeqsUpTo(AuthorEntryPool, MaxAuthors) }

InitPaper ==
  /\ paper \in PapersByKeys \cup PapersByContent
  /\ has_unidecode \in BOOLEAN
  /\ result = NoResult
  /\ again = NoResult
  /\ pcP = "start"
  /\ IdleKeys
  /\ IdleStage
  /\ IdleCall

\* A stored record as a later run reads it: its authors are dicts.
AsInput(record) ==
  [record EXCEPT !["authors"] = [i \in 1..Len(@) |-> DictEntry(@[i])]]

\* An adapter's normalize_paper(p).
Normalize ==
  /\ pcP = "start"
  /\ result' = normalize_paper(paper, has_unidecode)
  /\ pcP' = IF Raised(result') THEN "raised" ELSE "done"
  /\ UNCHANGED <<paper, has_unidecode, again, varsK, varsS, varsF, varsE, varsW>>

\* A later run's normalize_paper on the record the first run returned.
NormalizeAgain ==
  /\ pcP = "done"
  /\ again' = normalize_paper(AsInput(result), has_unidecode)
  /\ pcP' = "again"
  /\ UNCHANGED <<paper, has_unidecode, result, varsK, varsS, varsF, varsE, varsW>>

NextPaper == Normalize \/ NormalizeAgain

SpecPaper == InitPaper /\ [][NextPaper]_vars

(***************************************************************************)
(* Claims about normalize_paper.                                           *)
(***************************************************************************)

\* The required fields the paper in hand lacks.
Absent == { f \in {"bibtex_key", "title", "authors", "year"} : f \notin DOMAIN paper }

\* The place of a required field in the order bibtex_key, title, authors, year.
RequiredRank(f) ==
  CASE f = "bibtex_key" -> 1 [] f = "title" -> 2 [] f = "authors" -> 3 [] f = "year" -> 4

\* The first call has returned a record.
Returned == pcP \in {"done", "again"}

\* C2: normalize_paper is idempotent: called again on its own output, it
\* returns a record identical to that output.
C2_NormalizeIdempotent == pcP = "again" => again = result

\* C3: the call fails with the missing-field error exactly when a required
\* field is absent; the error then names exactly the absent required fields
\* in the order bibtex_key, title, authors, year, lists the keys that are
\* present, and is raised whatever the other fields hold.
C3_MissingFieldError ==
  pcP # "start" /\ pcP # "idle" =>
    /\ (Raised(result) /\ result.raised = "KeyError") <=> (Absent # {})
    /\ Absent # {} =>
         /\ { result.missing[i] : i \in 1..Len(result.missing) } = Absent
         /\ \A i, j \in 1..Len(result.missing) :
              i < j => RequiredRank(result.missing[i]) < RequiredRank(result.missing[j])
         /\ { result.available[i] : i \in 1..Len(result.available) } = DOMAIN paper
         /\ Len(result.available) = Cardinality(DOMAIN paper)

\* The spec's example: a paper that holds only a title has failed with the
\* missing list ["bibtex_key","authors","year"].
C3_Witness ==
  /\ pcP = "raised"
  /\ DOMAIN paper = {"title"}
  /\ result.raised = "KeyError"
  /\ result.missing = <<"bibtex_key", "authors", "year">>
  /\ result.available = <<"title">>

\* C4: a returned record has exactly the 18 canonical fields; an optional
\* field the input lacks is the empty string, except venue_type, which is
\* the registry's type of the venue, or "workshop" when the registry has
\* none, unless the caller set it, and then the caller's value is kept.
C4_CanonicalFields ==
  Returned =>
    /\ DOMAIN result =
         { "bibtex_key", "title", "authors", "year", "venue", "venue_name",
           "venue_type", "volume", "number", "pages", "abstract", "pdf_url",
           "venue_url", "doi", "openreview_url", "code_url", "source", "source_id" }
    /\ Cardinality(DOMAIN result) = 18
    /\ \A k \in DOMAIN result \ {"bibtex_key", "title", "authors", "year", "venue_type"} :
         k \notin DOMAIN paper => result[k] = <<>>
    /\ "venue_type" \notin DOMAIN paper =>
         result["venue_type"] =
           IF result["venue"] \in DOMAIN VENUES /\ "type" \in DOMAIN VENUES[result["venue"]]
             THEN VENUES[result["venue"]].type
             ELSE S(<<"w", "o", "r", "k", "s", "h", "o", "p">>)
    /\ "venue_type" \in DOMAIN paper => result["venue_type"] = paper["venue_type"]

\* A paper of a venue the registry lacks, with no venue_type set, has been
\* returned as a workshop paper.
C4_Witness ==
  /\ pcP = "done"
  /\ "venue" \in DOMAIN paper /\ paper["venue"] \notin DOMAIN VENUES
  /\ "venue_type" \notin DOMAIN paper
  /\ result["venue_type"] = S(<<"w", "o", "r", "k", "s", "h", "o", "p">>)
  /\ result["doi"] = <<>>

\* C5: the output authors are the repaired forms of the input authors that
\* were kept, in the input's relative order: some strictly increasing map
\* sends each output position to the input position it came from.
C5_AuthorOrderPreserved ==
  Returned =>
    LET ins  == paper["authors"]
        outs == result["authors"]
    IN  \E f \in [1..Len(outs) -> 1..Len(ins)] :
          /\ \A i, j \in 1..Len(outs) : i < j => f[i] < f[j]
          /\ \A j \in 1..Len(outs) :
               Author(outs[j].given, outs[j].family) = AuthorChain(ins[f[j]].d)

\* Two authors with different repaired forms have been returned.
C5_Witness ==
  /\ pcP = "done"
  /\ Len(paper["authors"]) = 2
  /\ Len(result["authors"]) = 2
  /\ result["authors"][1] # result["authors"][2]

\* C6: when every author is a pair, the paper is returned; an author whose
\* parts are both empty after the stages is not in the output, and every
\* other author is, with the slug of its repaired form.
C6_EmptyAuthorsDropped ==
  (pcP \in {"raised", "done", "again"} /\ Absent = {}
     /\ \A i \in 1..Len(paper["authors"]) : paper["authors"][i].kind = "dict") =>
    /\ ~Raised(result)
    /\ LET ins  == paper["authors"]
           outs == result["authors"]
           kept == { i \in 1..Len(ins) :
                       LET r == AuthorChain(ins[i].d)
                       IN  r.given # <<>> \/ r.family # <<>> }
       IN  /\ Len(outs) = Cardinality(kept)
           /\ \A j \in 1..Len(outs) :
                /\ outs[j].given # <<>> \/ outs[j].family # <<>>
                /\ outs[j].slug =
                     slugify_author(Author(outs[j].given, outs[j].family), has_unidecode)
           /\ \A i \in kept : \E j \in 1..Len(outs) :
                Author(outs[j].given, outs[j].family) = AuthorChain(ins[i].d)

\* A paper with an author that cleans to nothing and an author without
\* given name has been returned with the second author only.
C6_Witness ==
  /\ pcP = "done"
  /\ Len(paper["authors"]) = 2
  /\ Len(result["authors"]) = 1
  /\ result["authors"][1].given = <<>>
  /\ result["authors"][1].slug # <<>>

\* The paper in hand with every bare name string replaced by the pair
\* that cleaning and parse_author_name give for it.
WithParsedNames ==
  IF "authors" \notin DOMAIN paper THEN paper
  ELSE [paper EXCEPT !["authors"] =
          [i \in 1..Len(@) |->
             IF @[i].kind = "str"
               THEN DictEntry(parse_author_name(clean_raw_author_name(@[i].s)))
               ELSE @[i]]]

C8_ExtraKeysPassThrough ==
  Returned =>
    \A k \in DOMAIN paper \ { CanonicalFields[i] : i \in 1..Len(CanonicalFields) } :
      k \in DOMAIN result /\ result[k] = paper[k]

\* C8 as amended: no key of the raw paper that is not a canonical field is
\* in the output.
C8_ExtraKeysDropped ==
  Returned =>
    \A k \in DOMAIN paper \ { CanonicalFields[i] : i \in 1..Len(CanonicalFields) } :
      k \notin DOMAIN result

\* A paper with the extra key arxiv_url has been returned.
C8_Witness ==
  /\ pcP = "done"
  /\ "arxiv_url" \in DOMAIN paper
  /\ "doi" \in DOMAIN paper
  /\ result["doi"] = paper["doi"]

(***************************************************************************)
(* One repair stage applied to one author, and applied again to what it    *)
(* returned, as a repair run over stored data does.                        *)
(***************************************************************************)

MaxNameTokens == 2

\* The six stages, in the order normalize_paper applies them.
StageNames ==
  << "clean_raw_name", "fix_misplaced_initial", "fix_misplaced_particle",
     "fix_single_letter_family", "fix_leading_hyphen_family",
     "fix_punctuation_only_fields" >>

\* The stage named st applied to author a; the cleaning stage cleans both
\* parts, as the loop body of normalize_paper does.
ApplyStage(st, a) ==
  CASE st = "clean_raw_name" ->
         Author(clean_raw_author_name(a.given), clean_raw_author_name(a.family))
    [] st = "fix_misplaced_initial"       -> fix_misplaced_initial(a)
    [] st = "fix_misplaced_particle"      -> fix_misplaced_particle(a)
    [] st = "fix_single_letter_family"    -> fix_single_letter_family(a)
    [] st = "fix_leading_hyphen_family"   -> fix_leading_hyphen_family(a)
    [] st = "fix_punctuation_only_fields" -> fix_punctuation_only_fields(a)

\* Words of author names: an initial, a hyphen-led word, a particle, a
\* twice-escaped ampersand, a digit.
NameTokens ==
  { S(<<"A">>), S(<<"-", "A", "b">>), S(<<"l", "a">>),
    S(<<"&", "a", "m", "p", ";", "a", "m", "p", ";">>), S(<<"1">>) }

\* Names of up to MaxNameTokens words, and a name of whitespace only.
NamePool == { JoinSp(ws) : ws \in SeqsUpTo(NameTokens, MaxNameTokens) } \cup { S(<<" ">>) }

InitStage ==
  /\ stage \in { StageNames[i] : i \in 1..Len(StageNames) }
  /\ author \in { Author(g, f) : g \in NamePool, f \in NamePool }
  /\ once = NoResult
  /\ twice = NoResult
  /\ pcS = "start"
  /\ IdleKeys
  /\ IdlePaper
  /\ IdleCall

\* The stage runs on the author.
RunStage ==
  /\ pcS = "start"
  /\ once' = ApplyStage(stage, author)
  /\ pcS' = IF Raised(once') THEN "raised" ELSE "once"
  /\ UNCHANGED <<stage, author, twice, varsK, varsP, varsF, varsE, varsW>>

\* The stage runs on what it returned.
RunStageAgain ==
  /\ pcS = "once"
  /\ twice' = ApplyStage(stage, once)
  /\ pcS' = "twice"
  /\ UNCHANGED <<stage, author, once, varsK, varsP, varsF, varsE, varsW>>

NextStage == RunStage \/ RunStageAgain

SpecStage == InitStage /\ [][NextStage]_vars

\* C10: each of the six repair stages is idempotent: applied to its own
\* result it returns that result, f(f(a)) = f(a).
C10_StagesIdempotent == pcS = "twice" => twice = once

\* C11: each of the six repair stages is total: on every author with
\* string given and family, empty and whitespace-only ones included, it
\* returns a {given, family} value and never raises.
C11_StagesTotal ==
  pcS \in {"raised", "once", "twice"} =>
    /\ ~Raised(once)
    /\ DOMAIN once = {"given", "family"}

(***************************************************************************)
(* repair_mojibake on texts of Latin-1 lead and continuation bytes.        *)
(***************************************************************************)

MaxTextLen == 3

\* A letter, the two bytes of U+00E9 read as Latin-1, the first two bytes of
\* a three-byte sequence read as Latin-1, and a character beyond Latin-1.
MojibakeChars == {97, 195, 169, 226, 128, 20013}

InitMojibake ==
  /\ fn = "repair_mojibake"
  /\ arg \in [text : SeqsUpTo(MojibakeChars, MaxTextLen)]
  /\ ret = NoResult
  /\ ret2 = NoResult
  /\ pcF = "start"
  /\ IdleBatch
  /\ IdleKeys
  /\ IdlePaper
  /\ IdleStage

\* A caller (first_content_word, an adapter) repairs the text.
RepairMojibake ==
  /\ pcF = "start"
  /\ fn = "repair_mojibake"
  /\ ret' = repair_mojibake(arg.text)
  /\ pcF' = "done"
  /\ UNCHANGED <<fn, arg, ret2, varsK, varsP, varsS, varsE, varsW>>

NextMojibake == RepairMojibake

SpecMojibake == InitMojibake /\ [][NextMojibake]_vars

\* text.encode("latin-1").decode("utf-8") succeeds.
RoundTripSucceeds(text) ==
  /\ \A i \in 1..Len(text) : text[i] <= 255
  /\ \A i \in 1..Len(Utf8DecodeFrom(text, 1)) : Utf8DecodeFrom(text, 1)[i] # -1

\* C12: repair_mojibake never raises; it returns its input unchanged
\* whenever the input has no character in U+00C2..U+00DF or the Latin-1
\* encode / UTF-8 decode round trip fails, and returns the re-decoded text
\* only when a signature character is present and the round trip succeeds.
C12_RepairMojibake ==
  (pcF = "done" /\ fn = "repair_mojibake") =>
    IF (\E i \in 1..Len(arg.text) : arg.text[i] \in 194..223)
        /\ RoundTripSucceeds(arg.text)
    THEN ret = Utf8DecodeFrom(arg.text, 1)
    ELSE ret = arg.text

\* A text with a signature character was re-decoded, and a text that would
\* round-trip but has no signature character was returned as it was.
C12_Witness ==
  /\ pcF = "done" /\ fn = "repair_mojibake"
  /\ \/ arg.text = <<195, 169>> /\ ret = <<233>>
     \/ arg.text = <<226, 128, 128>> /\ ret = arg.text

(***************************************************************************)
(* slugify on short texts, and on its own result.                          *)
(***************************************************************************)

\* A lowercase and an uppercase letter, a hyphen, a space, an accented
\* letter, a digit and a CJK ideograph.
SlugChars == {97, 66, 45, 32, 233, 49, 33391}

\* No paper is in hand; unidecode is installed or not.
NoPaper ==
  /\ paper = <<>>
  /\ has_unidecode \in BOOLEAN
  /\ result = NoResult
  /\ again = NoResult
  /\ pcP = "idle"

InitSlug ==
  /\ fn = "slugify"
  /\ arg \in [text : SeqsUpTo(SlugChars, MaxTextLen)]
  /\ ret = NoResult
  /\ ret2 = NoResult
  /\ pcF = "start"
  /\ IdleBatch
  /\ IdleKeys
  /\ NoPaper
  /\ IdleStage

\* slugify(text)
Slugify ==
  /\ pcF = "start"
  /\ fn = "slugify"
  /\ ret' = slugify(arg.text, has_unidecode)
  /\ pcF' = "done"
  /\ UNCHANGED <<fn, arg, ret2, varsK, varsP, varsS, varsE, varsW>>

\* slugify on the slug it returned.
SlugifyAgain ==
  /\ pcF = "done"
  /\ fn = "slugify"
  /\ ret2' = slugify(ret, has_unidecode)
  /\ pcF' = "again"
  /\ UNCHANGED <<fn, arg, ret, varsK, varsP, varsS, varsE, varsW>>

NextSlug == Slugify \/ SlugifyAgain

SpecSlug == InitSlug /\ [][NextSlug]_vars

\* C13: slugify returns a string of a-z, 0-9 and '-' only, with no hyphen
\* at either end and no two adjacent hyphens; so slugify of a slug is that
\* slug.
C13_SlugShape ==
  (fn = "slugify" /\ pcF \in {"done", "again"}) =>
    /\ \A i \in 1..Len(ret) : ret[i] \in (97..122) \cup (48..57) \cup {45}
    /\ ret # <<>> => ret[1] # 45 /\ ret[Len(ret)] # 45
    /\ \A i \in 1..(Len(ret) - 1) : ~(ret[i] = 45 /\ ret[i + 1] = 45)
    /\ pcF = "again" => ret2 = ret

\* A text with an uppercase letter between a hyphen and a space became a
\* slug, and the slug was slugified again.
C13_Witness ==
  /\ fn = "slugify" /\ pcF = "again"
  /\ arg.text = <<45, 66, 32>>
  /\ ret = <<98>>

(***************************************************************************)
(* slugify_author on author dicts with and without their name keys.        *)
(***************************************************************************)

MaxPartLen == 2

\* A lowercase and an uppercase letter, a space and a CJK ideograph.
PartChars == {97, 66, 32, 33391}

\* The key sets of the author dicts: both parts, both parts and a key that
\* is no part of the name, one part only, none.
AuthorKeySets ==
  { {"given", "family"}, {"given", "family", "affiliation"}, {"family"}, {"given"}, {} }

\* The author dict with the keys K.
AuthorDict(K, g, f) ==
  [k \in K |-> IF k = "given" THEN g ELSE IF k = "family" THEN f ELSE S(<<"x">>)]

InitSlugAuthor ==
  /\ fn = "slugify_author"
  /\ arg \in { [author |-> AuthorDict(K, g, f)] :
                 K \in AuthorKeySets,
                 g \in SeqsUpTo(PartChars, MaxPartLen),
                 f \in SeqsUpTo(PartChars, MaxPartLen) }
  /\ ret = NoResult
  /\ ret2 = NoResult
  /\ pcF = "start"
  /\ IdleBatch
  /\ IdleKeys
  /\ NoPaper
  /\ IdleStage

\* slugify_author(author)
SlugifyAuthor ==
  /\ pcF = "start"
  /\ fn = "slugify_author"
  /\ ret' = slugify_author(arg.author, has_unidecode)
  /\ pcF' = "done"
  /\ UNCHANGED <<fn, arg, ret2, varsK, varsP, varsS, varsE, varsW>>

NextSlugAuthor == SlugifyAuthor

SpecSlugAuthor == InitSlugAuthor /\ [][NextSlugAuthor]_vars

\* The slug, or "unknown" for an empty one.
OrUnknown(slug) == IF slug = <<>> THEN S(<<"u", "n", "k", "n", "o", "w", "n">>) ELSE slug

\* C14: slugify_author is a function of family and given only: its result
\* is the slug of the text "family given", "unknown" exactly when that slug
\* is empty, and never an empty slug.
C14_SlugOfFamilyGiven ==
  (fn = "slugify_author" /\ pcF = "done") =>
    /\ ret # <<>>
    /\ ret = OrUnknown(slugify(GetStr(arg.author, "family") \o <<32>>
                                 \o GetStr(arg.author, "given"), has_unidecode))

\* The name part as slugify_author reads it: stripped, and when it holds a
\* CJK ideograph replaced by its romanization as one lowercase token, which
\* is empty when unidecode is not installed.
PartRead(part, ud) ==
  IF \E i \in 1..Len(part) : part[i] \in 19968..40959
    THEN (IF ud THEN Lower(SelectSeq(FlatMapUnidecode(Strip(part)), NotBlank)) ELSE <<>>)
    ELSE Strip(part)

\* C14 (amended): slugify_author depends on family and given only (and on
\* whether unidecode is installed); a part with a CJK ideograph is first
\* replaced by its romanization; the result is the slug of "family given"
\* built from the parts so read, "unknown" exactly when that slug is empty,
\* and never empty; without CJK ideographs it is the slug of the text
\* "family given" itself.
C14_SlugOfPartsRead ==
  (fn = "slugify_author" /\ pcF = "done") =>
    /\ ret # <<>>
    /\ ret = OrUnknown(slugify(Strip(PartRead(GetStr(arg.author, "family"), has_unidecode)
                                       \o <<32>>
                                       \o PartRead(GetStr(arg.author, "given"), has_unidecode)),
                                has_unidecode))
    /\ (~has_cjk(GetStr(arg.author, "family")) /\ ~has_cjk(GetStr(arg.author, "given"))) =>
         ret = OrUnknown(slugify(GetStr(arg.author, "family") \o <<32>>
                                   \o GetStr(arg.author, "given"), has_unidecode))
    /\ (DOMAIN arg.author = {}) => ret = S(<<"u", "n", "k", "n", "o", "w", "n">>)

\* An author with a family and a given name got the family-first slug, or
\* an author with a CJK family name got its romanization first.
C14_Witness ==
  /\ fn = "slugify_author" /\ pcF = "done"
  /\ "affiliation" \in DOMAIN arg.author
  /\ \/ arg.author.family = <<66>> /\ arg.author.given = <<97>> /\ ret = <<98, 45, 97>>
     \/ /\ arg.author.family = <<33391>> /\ arg.author.given = <<97>> /\ has_unidecode
        /\ ret = S(<<"l", "i", "a", "n", "g", "-", "a">>)

(***************************************************************************)
(* first_content_word and make_bibtex_key on titles of a few words.        *)
(***************************************************************************)

MaxTitleWords == 2

\* Words of titles: stopwords, a hyphenated compound, a number, a single
\* letter, LaTeX commands with and without braces, an accented word, the
\* same word as mojibake, a plain word, a CJK ideograph.
TitleWords ==
  { S(<<"a">>), S(<<"t", "h", "e">>), S(<<"G", "P", "T", "-", "4">>), S(<<"3">>), S(<<"x">>),
    S(<<"\\", "t", "e", "x", "t", "t", "t", "{", "C", "2", "-", "D", "P", "O", "}">>),
    S(<<"$", "\\", "a", "l", "p", "h", "a", "$">>),
    <<201>> \o S(<<"t", "u", "d", "e">>), <<195, 169>> \o S(<<"t", "u", "d", "e">>),
    S(<<"R", "e", "w", "a", "r", "d">>), <<33391>> }

\* The titles of the docstrings.
ExampleTitles ==
  { S(<<"$", "\\", "t", "e", "x", "t", "t", "t", "{", "C", "2", "-", "D", "P", "O", "}", "$", ":", " ", "a", " ", "n", "e", "w", " ", "m", "e", "t", "h", "o", "d">>),
    S(<<"R", "e", "w", "a", "r", "d", " ", "M", "o", "d", "e", "l", "s", " ", "f", "o", "r", " ", "R", "L", "H", "F">>) }

ContentWordTitles ==
  { JoinSp(ws) : ws \in SeqsUpTo(TitleWords, MaxTitleWords) } \cup ExampleTitles

\* Family names: plain, with an apostrophe, with an umlaut, empty, with a
\* particle, a CJK ideograph.
KeyFamilies ==
  { S(<<"L", "i", "u">>), S(<<"O", "'", "N", "e", "i", "l">>), <<77, 252>> \o S(<<"l", "l", "e", "r">>), <<>>, S(<<"v", "a", "n", " ", "d", "e", "r">>), <<33391>> }

KeyArgs ==
  [ family : KeyFamilies,
    year   : { S(<<"2", "0", "2", "5">>), <<>> },
    venue  : { S(<<"i", "c", "m", "l">>), S(<<"N", "e", "u", "r", "I", "P", "S">>) },
    title  : TitleWords \cup ExampleTitles ]

InitBibtexKey ==
  /\ \/ fn = "first_content_word" /\ arg \in [title : ContentWordTitles]
     \/ fn = "make_bibtex_key" /\ arg \in KeyArgs
  /\ ret = NoResult
  /\ ret2 = NoResult
  /\ pcF = "start"
  /\ IdleBatch
  /\ IdleKeys
  /\ NoPaper
  /\ IdleStage

\* first_content_word(title)
FirstContentWord ==
  /\ pcF = "start"
  /\ fn = "first_content_word"
  /\ ret' = first_content_word(arg.title, has_unidecode)
  /\ pcF' = "done"
  /\ UNCHANGED <<fn, arg, ret2, varsK, varsP, varsS, varsE, varsW>>

\* An adapter's make_bibtex_key(family, year, venue, title).
MakeBibtexKey ==
  /\ pcF = "start"
  /\ fn = "make_bibtex_key"
  /\ ret' = make_bibtex_key(arg.family, arg.year, arg.venue, arg.title, has_unidecode)
  /\ pcF' = "done"
  /\ UNCHANGED <<fn, arg, ret2, varsK, varsP, varsS, varsE, varsW>>

NextBibtexKey == FirstContentWord \/ MakeBibtexKey

SpecBibtexKey == InitBibtexKey /\ [][NextBibtexKey]_vars

\* C15: make_bibtex_key(family, year, venue, title) is the ASCII-folded,
\* lowercased family with every non-letter removed, then the year, then the
\* lowercased venue, then "-" and first_content_word(title).
C15_KeyPattern ==
  (fn = "make_bibtex_key" /\ pcF = "done") =>
    ret = SelectSeq(Lower(normalize_text(arg.family, has_unidecode)), IsAsciiLetter)
            \o arg.year \o Lower(arg.venue) \o <<45>>
            \o first_content_word(arg.title, has_unidecode)

\* The key of the docstring's example was made, and a key whose family
\* lost an umlaut's accent and whose venue was lowercased.
C15_Witness ==
  /\ fn = "make_bibtex_key" /\ pcF = "done"
  /\ \/ /\ arg = [family |-> S(<<"L", "i", "u">>), year |-> S(<<"2", "0", "2", "5">>), venue |-> S(<<"i", "c", "m", "l">>), title |-> S(<<"R", "e", "w", "a", "r", "d", " ", "M", "o", "d", "e", "l", "s", " ", "f", "o", "r", " ", "R", "L", "H", "F">>)]
        /\ ret = S(<<"l", "i", "u", "2", "0", "2", "5", "i", "c", "m", "l", "-", "r", "e", "w", "a", "r", "d">>)
     \/ /\ arg.family = <<77, 252>> \o S(<<"l", "l", "e", "r">>) /\ arg.venue = S(<<"N", "e", "u", "r", "I", "P", "S">>) /\ arg.year = <<>>
        /\ arg.title = S(<<"G", "P", "T", "-", "4">>)
        /\ ret = S(<<"m", "u", "l", "l", "e", "r", "n", "e", "u", "r", "i", "p", "s", "-", "g", "p", "t", "4">>)

\* The word the claim selects from the tokens of a cleaned title: the slug
\* of the first token whose slug has two characters or more, is no stopword
\* and has a letter; else of the first token whose slug has a letter; else
\* "paper".
SelectedWord(tokens) ==
  LET slugs == [i \in 1..Len(tokens) |-> SelectSeq(Lower(tokens[i]), IsAlnum)]
      good  == { i \in 1..Len(tokens) :
                   /\ Len(slugs[i]) >= 2
                   /\ slugs[i] \notin STOPWORDS
                   /\ \E j \in 1..Len(slugs[i]) : IsAsciiLetter(slugs[i][j]) }
      lettered == { i \in 1..Len(tokens) :
                      \E j \in 1..Len(slugs[i]) : IsAsciiLetter(slugs[i][j]) }
  IN  IF good # {} THEN slugs[CHOOSE i \in good : \A k \in good : i <= k]
      ELSE IF lettered # {} THEN slugs[CHOOSE i \in lettered : \A k \in lettered : i <= k]
      ELSE S(<<"p", "a", "p", "e", "r">>)

\* C16: first_content_word(title) decodes HTML entities, repairs mojibake
\* and strips LaTeX, tokenizes the result into alphanumeric tokens that keep
\* internal hyphens, and returns the selected word; the result is never
\* empty.
C16_WordOfRepairedTitle ==
  (fn = "first_content_word" /\ pcF = "done") =>
    /\ ret # <<>>
    /\ ret = SelectedWord(TokensFrom(strip_latex(repair_mojibake(unescape(arg.title))), 1))

\* C16 (amended): first_content_word(title) decodes HTML entities, folds
\* the text to ASCII with normalize_text (no mojibake repair) and strips
\* LaTeX, tokenizes the result into alphanumeric tokens that keep internal
\* hyphens, and returns the selected word; the result is never empty.
C16_WordOfFoldedTitle ==
  (fn = "first_content_word" /\ pcF = "done") =>
    /\ ret # <<>>
    /\ ret = SelectedWord(TokensFrom(strip_latex(normalize_text(unescape(arg.title),
                                                               has_unidecode)), 1))

\* The docstring's LaTeX title gave "c2dpo", or a title of a stopword and a
\* one-letter word fell back to the stopword.
C16_Witness ==
  /\ fn = "first_content_word" /\ pcF = "done"
  /\ \/ arg.title = S(<<"$", "\\", "t", "e", "x", "t", "t", "t", "{", "C", "2", "-", "D", "P", "O", "}", "$", ":", " ", "a", " ", "n", "e", "w", " ", "m", "e", "t", "h", "o", "d">>) /\ ret = S(<<"c", "2", "d", "p", "o">>)
     \/ arg.title = S(<<"t", "h", "e", " ", "x">>) /\ ret = S(<<"t", "h", "e">>)

(***************************************************************************)
(* Enrichment: enrich_papers, enrich_legacy.enrich_file and the enrichment *)
(* phase of build_venue_legacy.  The Semantic Scholar lookups are inputs.  *)
(***************************************************************************)

MaxPapers == 2

\* d[k] = v on a dict d.
SetKey(d, k, v) == [x \in DOMAIN d \cup {k} |-> IF x = k THEN v ELSE d[x]]

\* if result.get(k) and not paper.get(k): paper[k] = result[k]
Fill(p, k, res) ==
  IF GetStr(res, k) # <<>> /\ GetStr(p, k) = <<>> THEN SetKey(p, k, res[k]) ELSE p

\* The body of the phase 1 loop of enrich_papers for one paper.
EnrichByDoi(p, batch_results) ==
  IF GetStr(p, "doi") # <<>> /\ GetStr(p, "doi") \in DOMAIN batch_results
    THEN Fill(Fill(p, "abstract", batch_results[GetStr(p, "doi")]),
              "pdf_url", batch_results[GetStr(p, "doi")])
  ELSE p

\* The index in needs_search of paper i, which has no DOI.
SubsetIndex(ps, i) == Cardinality({ j \in 1..i : GetStr(ps[j], "doi") = <<>> })

\* The body of the phase 2 loop of enrich_papers for one paper.
EnrichByTitle(p, res) ==
  Fill(Fill(Fill(p, "abstract", res), "doi", res), "pdf_url", res)

\* Phase 2 of enrich_papers on the papers phase 1 left.
TitlePhase(ps, title_results) ==
  [i \in 1..Len(ps) |->
     IF GetStr(ps[i], "doi") = <<>> /\ SubsetIndex(ps, i) \in DOMAIN title_results
       THEN EnrichByTitle(ps[i], title_results[SubsetIndex(ps, i)])
     ELSE ps[i]]

\* Phase 1 of enrich_papers.
DoiPhase(ps, batch_results) == [i \in 1..Len(ps) |-> EnrichByDoi(ps[i], batch_results)]

\* enrich_papers(papers, title_fallback=...), with the results of the two
\* lookups; the list is changed in place and returned.
enrich_papers(ps, batch_results, title_fallback, title_results) ==
  IF title_fallback THEN TitlePhase(DoiPhase(ps, batch_results), title_results)
  ELSE DoiPhase(ps, batch_results)

DblpSource == S(<<"d", "b", "l", "p">>)

EnrichedSource == S(<<"d", "b", "l", "p", "+", "s", "2">>)

\* The loop of enrich_file after enrich_papers, for one paper.
MarkFilePaper(p) ==
  IF GetStr(p, "source") = DblpSource
       /\ (GetStr(p, "abstract") # <<>> \/ GetStr(p, "pdf_url") # <<>>)
    THEN SetKey(p, "source", EnrichedSource)
  ELSE p

\* The loop of build_venue_legacy that marks the source, for one record.
MarkBuildRecord(r) ==
  IF GetStr(r, "abstract") # <<>> THEN SetKey(r, "source", EnrichedSource) ELSE r

\* record["bibtex_key"] = new_key for the resolved keys.
WithResolvedKeys(rs) ==
  [i \in 1..Len(rs) |->
     SetKey(rs[i], "bibtex_key",
            resolve_bibtex_collisions([j \in 1..Len(rs) |-> rs[j]["bibtex_key"]])[i])]

\* Papers as DBLP or a legacy file supplies them, with or without a DOI,
\* an abstract and a PDF link.
EnrichPaperPool ==
  { [bibtex_key |-> S(<<"a">>), title |-> S(<<"A", "b">>), year |-> S(<<"1">>),
     authors |-> <<DictEntry(Author(S(<<"A", "b">>), S(<<"L", "a">>)))>>,
     doi |-> d, abstract |-> a, pdf_url |-> u, source |-> src] :
      d \in {<<>>, S(<<"d">>)}, a \in {<<>>, S(<<"a">>)}, u \in {<<>>, S(<<"u">>)},
      src \in {DblpSource, S(<<"a", "c", "l">>)} }

\* What a lookup returns for one paper.
LookupResults ==
  { [abstract |-> S(<<"s", "2">>), pdf_url |-> S(<<"p">>), doi |-> S(<<"e">>)],
    [abstract |-> S(<<"s", "2">>)],
    [doi |-> S(<<"e">>), pdf_url |-> <<>>] }

\* The batch results: nothing found, or a result for the DOI of the pool.
BatchResults == { <<>> } \cup { [d \in {S(<<"d">>)} |-> r] : r \in LookupResults }

\* The title results for n papers searched: nothing found, or one result
\* for each of them.
TitleResults(n) == { <<>> } \cup { [i \in 1..n |-> r] : r \in LookupResults }

InitEnrich ==
  /\ mode \in {"enrich_papers", "enrich_file", "build_venue_legacy"}
  /\ papers \in SeqsUpTo(EnrichPaperPool, MaxPapers)
  /\ before = papers
  /\ pcE = "start"
  /\ jobs = <<>>
  /\ records = <<>>
  /\ pcW = <<>>
  /\ fn = "none" /\ arg = NoResult /\ ret = NoResult /\ ret2 = NoResult /\ pcF = "idle"
  /\ IdleKeys
  /\ IdlePaper
  /\ IdleStage

\* A caller's enrich_papers(papers).
EnrichPapers ==
  /\ mode = "enrich_papers"
  /\ pcE = "start"
  /\ \E b \in BatchResults, tf \in BOOLEAN, t \in TitleResults(Len(papers)) :
       papers' = enrich_papers(papers, b, tf, t)
  /\ before' = papers
  /\ pcE' = "done"
  /\ UNCHANGED <<mode, varsW, varsK, varsP, varsS, fn, arg, ret, ret2, pcF>>

\* enrich_file(path): an empty file is skipped; otherwise the papers are
\* enriched, their source is marked and the file is written back.
EnrichFile ==
  /\ mode = "enrich_file"
  /\ pcE = "start"
  /\ IF papers = <<>>
       THEN papers' = papers /\ pcE' = "skipped"
       ELSE /\ \E b \in BatchResults, tf \in BOOLEAN, t \in TitleResults(Len(papers)) :
                 papers' = [i \in 1..Len(papers) |->
                              MarkFilePaper(enrich_papers(papers, b, tf, t)[i])]
            /\ pcE' = "done"
  /\ before' = papers
  /\ UNCHANGED <<mode, varsW, varsK, varsP, varsS, fn, arg, ret, ret2, pcF>>

\* build_venue_legacy, phase 3: nothing to do without papers; otherwise
\* enrich_papers(all_papers).
BuildEnrich ==
  /\ mode = "build_venue_legacy"
  /\ pcE = "start"
  /\ IF papers = <<>>
       THEN papers' = papers /\ pcE' = "skipped"
       ELSE /\ \E b \in BatchResults, tf \in BOOLEAN, t \in TitleResults(Len(papers)) :
                 papers' = enrich_papers(papers, b, tf, t)
            /\ pcE' = "enriched"
  /\ before' = papers
  /\ UNCHANGED <<mode, varsW, varsK, varsP, varsS, fn, arg, ret, ret2, pcF>>

\* build_venue_legacy, phase 4: normalize the papers and resolve the key
\* collisions.
BuildNormalize ==
  /\ mode = "build_venue_legacy"
  /\ pcE = "enriched"
  /\ papers' = WithResolvedKeys([i \in 1..Len(papers) |->
                                   normalize_paper(papers[i], has_unidecode)])
  /\ pcE' = "normalized"
  /\ UNCHANGED <<mode, before, varsW, varsK, varsP, varsS, fn, arg, ret, ret2, pcF>>

\* build_venue_legacy: the records with an abstract get the enriched source.
BuildMarkSource ==
  /\ mode = "build_venue_legacy"
  /\ pcE = "normalized"
  /\ papers' = [i \in 1..Len(papers) |-> MarkBuildRecord(papers[i])]
  /\ before' = papers
  /\ pcE' = "done"
  /\ UNCHANGED <<mode, varsW, varsK, varsP, varsS, fn, arg, ret, ret2, pcF>>

NextEnrich == EnrichPapers \/ EnrichFile \/ BuildEnrich \/ BuildNormalize \/ BuildMarkSource

SpecEnrich == InitEnrich /\ [][NextEnrich]_vars

\* C17: enrichment only fills empty fields: after enrich_papers, after
\* enrich_file and after the enrichment steps of build_venue_legacy, every
\* field of every paper that was non-empty before the step has the same
\* value.
C17_OnlyEmptyFieldsFilled ==
  pcE \in {"done", "enriched"} =>
    \A i \in 1..Len(before) : \A k \in DOMAIN before[i] :
      before[i][k] # <<>> => (k \in DOMAIN papers[i] /\ papers[i][k] = before[i][k])

(***************************************************************************)
(* Concurrent workers: fetch_all's _fetch_job normalizes the papers of its *)
(* own venue-year while other workers normalize theirs.                    *)
(***************************************************************************)

MaxJobPapers == 2

\* The workers of the thread pool.
Workers == {1, 2}

\* Papers of a venue-year: one whose title, author and abstract all need
\* repair, a clean one, and one without a year.
JobPaperPool ==
  { RawPaper({"bibtex_key", "title", "authors", "year"}, S(<<"A", "B">>),
             <<DictEntry(Author(S(<<"A", "b", " ", "l", "a">>), S(<<"A", "b">>)))>>,
             [k \in {"abstract"} |-> <<195, 169>>]),
    RawPaper({"bibtex_key", "title", "authors", "year"}, S(<<"A", "b">>),
             <<DictEntry(Author(S(<<"A", "b">>), S(<<"L", "a">>)))>>, <<>>),
    RawPaper({"bibtex_key", "title", "authors"}, S(<<"A", "b">>),
             <<DictEntry(Author(S(<<"A", "b">>), S(<<"L", "a">>)))>>, <<>>) }

\* A raw paper whose title and authors were replaced by the repaired ones.
PaperRepairedInPlace(p, ud) ==
  IF Raised(normalize_paper(p, ud)) THEN p
  ELSE [k \in DOMAIN p |->
          IF k = "title" THEN normalize_paper(p, ud)["title"]
          ELSE IF k = "authors"
            THEN [i \in 1..Len(normalize_paper(p, ud)["authors"]) |->
                    DictEntry(normalize_paper(p, ud)["authors"][i])]
          ELSE p[k]]

\* The raw paper p after normalize_paper(p) has returned or raised: the
\* function assigns to locals and to dicts it has built itself only.
PaperAfterCall(p, ud) == p

InitWorkers ==
  /\ jobs \in [Workers -> SeqsUpTo(JobPaperPool, MaxJobPapers)]
  /\ records = [w \in Workers |-> <<>>]
  /\ pcW = [w \in Workers |-> "start"]
  /\ mode = "none" /\ papers = <<>> /\ before = <<>> /\ pcE = "idle"
  /\ fn = "none" /\ arg = NoResult /\ ret = NoResult /\ ret2 = NoResult /\ pcF = "idle"
  /\ IdleKeys
  /\ IdlePaper
  /\ IdleStage

\* _fetch_job: process_venue_year has returned the papers; without papers
\* the job returns at once.
StartJob(w) ==
  /\ pcW[w] = "start"
  /\ pcW' = [pcW EXCEPT ![w] = IF jobs[w] = <<>> THEN "done" ELSE "normalize"]
  /\ UNCHANGED <<jobs, records, varsE, varsK, varsP, varsS, fn, arg, ret, ret2, pcF>>

\* One normalize_paper(p) of the list comprehension of worker w; an
\* exception ends the job.
NormalizeNext(w) ==
  /\ pcW[w] = "normalize"
  /\ jobs' = [jobs EXCEPT ![w] =
                [@ EXCEPT ![Len(records[w]) + 1] = PaperAfterCall(@, has_unidecode)]]
  /\ \E r \in {normalize_paper(jobs[w][Len(records[w]) + 1], has_unidecode)} :
       IF Raised(r)
         THEN /\ records' = records
              /\ pcW' = [pcW EXCEPT ![w] = "failed"]
         ELSE /\ records' = [records EXCEPT ![w] = Append(@, r)]
              /\ pcW' = [pcW EXCEPT ![w] =
                           IF Len(records[w]) + 1 = Len(jobs[w]) THEN "write" ELSE "normalize"]
  /\ UNCHANGED <<varsE, varsK, varsP, varsS, fn, arg, ret, ret2, pcF>>

\* Under write_lock the worker writes its records out.
WriteRecords(w) ==
  /\ pcW[w] = "write"
  /\ pcW' = [pcW EXCEPT ![w] = "done"]
  /\ UNCHANGED <<jobs, records, varsE, varsK, varsP, varsS, fn, arg, ret, ret2, pcF>>

NextWorkers == \E w \in Workers : StartJob(w) \/ NormalizeNext(w) \/ WriteRecords(w)

SpecWorkers == InitWorkers /\ [][NextWorkers]_vars

\* What worker w's list gives when its papers are normalized one after the
\* other with no other worker running: the records up to the first paper
\* that raises.
RECURSIVE SequentialRecords(_, _)
SequentialRecords(ps, ud) ==
  IF ps = <<>> THEN <<>>
  ELSE IF Raised(normalize_paper(Head(ps), ud)) THEN <<>>
  ELSE <<normalize_paper(Head(ps), ud)>> \o SequentialRecords(Tail(ps), ud)

MaxParseTokens == 3

\* Words of names: a plain word, two particles, a capitalised particle.
ParseTokens == { S(<<"A">>), S(<<"v", "a", "n">>), S(<<"l", "a">>), S(<<"V", "a", "n">>) }

\* Names with single spaces, and the same names with more whitespace
\* before, between and after the words.
ParseNames ==
  { JoinSp(ws) : ws \in SeqsUpTo(ParseTokens, MaxParseTokens) } \cup
  { <<32>> \o Concat([i \in 1..Len(ws) |-> ws[i] \o <<32, 9>>]) :
      ws \in SeqsUpTo(ParseTokens, MaxParseTokens) }

InitNames ==
  /\ \/ fn = "parse_author_name" /\ arg \in [name : ParseNames]
     \/ /\ fn = "fix_misplaced_particle"
        /\ arg \in [author : { Author(g, f) : g \in ParseNames,
                                                f \in {<<>>, <<32>>, S(<<"G", "o", "o", "l">>), S(<<"-", "A", "b">>)} }]
  /\ ret = NoResult
  /\ ret2 = NoResult
  /\ pcF = "start"
  /\ IdleBatch
  /\ IdleKeys
  /\ IdlePaper
  /\ IdleStage

\* An adapter's parse_author_name(name).
ParseAuthorName ==
  /\ pcF = "start"
  /\ fn = "parse_author_name"
  /\ ret' = parse_author_name(arg.name)
  /\ pcF' = "done"
  /\ UNCHANGED <<fn, arg, ret2, varsK, varsP, varsS, varsE, varsW>>

\* _fix_misplaced_particle(author)
FixMisplacedParticle ==
  /\ pcF = "start"
  /\ fn = "fix_misplaced_particle"
  /\ ret' = fix_misplaced_particle(arg.author)
  /\ pcF' = "done"
  /\ UNCHANGED <<fn, arg, ret2, varsK, varsP, varsS, varsE, varsW>>

NextNames == ParseAuthorName \/ FixMisplacedParticle

SpecNames == InitNames /\ [][NextNames]_vars

\* C19: parse_author_name gives given "" and family "" for a blank name and
\* given "" and the token as family for one token; for n >= 2 tokens the
\* family starts at the first token with 0-based index in 1..n-2 that is a
\* particle as written, else at the last token; given is every token
\* before it, so given tokens followed by family tokens are the tokens of
\* the name, and the family of a non-blank name is not empty.
C19_ParseAuthorName ==
  (fn = "parse_author_name" /\ pcF = "done") =>
    /\ Split(arg.name) = <<>> => ret = Author(<<>>, <<>>)
    /\ Len(Split(arg.name)) = 1 => ret = Author(<<>>, Split(arg.name)[1])
    /\ Len(Split(arg.name)) >= 2 =>
         \E k \in 2..Len(Split(arg.name)) :
           /\ k = Len(Split(arg.name)) \/ Split(arg.name)[k] \in NAME_PARTICLES
           /\ \A j \in 2..(k - 1) : Split(arg.name)[j] \notin NAME_PARTICLES
           /\ ret.given = JoinSp(SubSeq(Split(arg.name), 1, k - 1))
           /\ ret.family = JoinSp(SubSeq(Split(arg.name), k, Len(Split(arg.name))))
    /\ DOMAIN ret = {"given", "family"}
    /\ Split(ret.given) \o Split(ret.family) = Split(arg.name)
    /\ Split(arg.name) # <<>> => ret.family # <<>>

\* A name of three words with a particle in the middle was split before
\* the particle, and a name that starts with a particle kept it as given.
C19_Witness ==
  /\ fn = "parse_author_name" /\ pcF = "done"
  /\ \/ arg.name = S(<<"A", " ", "v", "a", "n", " ", "A">>) /\ ret = Author(S(<<"A">>), S(<<"v", "a", "n", " ", "A">>))
     \/ arg.name = S(<<"v", "a", "n", " ", "l", "a", " ", "A">>) /\ ret = Author(S(<<"v", "a", "n">>), S(<<"l", "a", " ", "A">>))

\* C20: when given has two tokens or more and family is not empty,
\* _fix_misplaced_particle moves the maximal run of trailing given tokens
\* that are particles in any letter case, in order, to the front of family;
\* the first given token is never moved, so given stays non-empty; in every
\* other case the author is returned unchanged.
C20_TrailingParticlesMoved ==
  (fn = "fix_misplaced_particle" /\ pcF = "done") =>
    IF /\ Len(Split(arg.author.given)) >= 2
       /\ arg.author.family # <<>>
       /\ Lower(Split(arg.author.given)[Len(Split(arg.author.given))]) \in NAME_PARTICLES
    THEN \E k \in 2..Len(Split(arg.author.given)) :
           /\ \A j \in k..Len(Split(arg.author.given)) :
                Lower(Split(arg.author.given)[j]) \in NAME_PARTICLES
           /\ k = 2 \/ Lower(Split(arg.author.given)[k - 1]) \notin NAME_PARTICLES
           /\ ret.given = JoinSp(SubSeq(Split(arg.author.given), 1, k - 1))
           /\ ret.family = JoinSp(SubSeq(Split(arg.author.given), k,
                                         Len(Split(arg.author.given))))
                              \o <<32>> \o arg.author.family
           /\ ret.given # <<>>
    ELSE ret = arg.author

\* The docstring's case: a capitalised particle after the first given word
\* went to the family; or two trailing particles went together.
C20_Witness ==
  /\ fn = "fix_misplaced_particle" /\ pcF = "done"
  /\ \/ arg.author = Author(S(<<"A", " ", "V", "a", "n">>), S(<<"G", "o", "o", "l">>)) /\ ret = Author(S(<<"A">>), S(<<"V", "a", "n", " ", "G", "o", "o", "l">>))
     \/ arg.author = Author(S(<<"A", " ", "v", "a", "n", " ", "l", "a">>), S(<<"G", "o", "o", "l">>)) /\ ret = Author(S(<<"A">>), S(<<"v", "a", "n", " ", "l", "a", " ", "G", "o", "o", "l">>))

(***************************************************************************)
(* The repair stages 2, 4, 5 and 6 on authors whose parts hold initials,   *)
(* words, punctuation, hyphens and line breaks.                            *)
(***************************************************************************)

MaxRepairTokens == 2

\* Tokens of a given name: two initials, a word, punctuation, an address.
RepairTokens ==
  { S(<<"I", ".">>), S(<<"J">>), S(<<"A", "b">>), S(<<"(", ")">>), S(<<"a", "@", "b">>) }

\* Given names: tokens joined by single spaces, a blank one, one with more
\* whitespace, one with a stray brace.
RepairGivens ==
  { JoinSp(ws) : ws \in SeqsUpTo(RepairTokens, MaxRepairTokens) } \cup
  { S(<<" ">>), S(<<" ", "A", "b", " ", " ", "I", ".", " ">>), S(<<"{", "A", "b">>) }

\* Family names: empty, with a hyphen in front and inside, plain, junk, a
\* single letter, and an initial followed by more, with and without line
\* breaks.
RepairFamilies ==
  { <<>>, S(<<"-", "C", "d">>), S(<<"C", "-", "d">>), S(<<"C", "d">>),
    S(<<"(", ")">>), S(<<"c", "@", "d">>), S(<<"{", "c", "d">>), S(<<"c", "d", "}">>),
    S(<<"D">>), S(<<"D", ".">>), S(<<"D">>) \o <<10>>,
    S(<<"A", " ", "C", "d">>), S(<<"A", ".", " ", "C", "d">>),
    S(<<"A", ".", " ", " ", "C", "d", " ">>), S(<<"A", " ", " ">>), S(<<"A", " ">>),
    S(<<"A", ".", "C", "d">>), S(<<"A", "b", " ", "C", "d">>),
    S(<<"A", " ">>) \o <<10>>, S(<<"A", " ", "b">>) \o <<10>>,
    S(<<"A", " ", "b">>) \o <<10>> \o S(<<"c">>) }

RepairStageNames ==
  { "fix_leading_hyphen_family", "fix_punctuation_only_fields",
    "fix_single_letter_family", "fix_misplaced_initial" }

InitRepair ==
  /\ fn \in RepairStageNames
  /\ arg \in [author : { Author(g, f) : g \in RepairGivens, f \in RepairFamilies }]
  /\ ret = NoResult
  /\ ret2 = NoResult
  /\ pcF = "start"
  /\ IdleBatch
  /\ IdleKeys
  /\ IdlePaper
  /\ IdleStage

\* _fix_leading_hyphen_family(author)
FixLeadingHyphenFamily ==
  /\ pcF = "start"
  /\ fn = "fix_leading_hyphen_family"
  /\ ret' = fix_leading_hyphen_family(arg.author)
  /\ pcF' = "done"
  /\ UNCHANGED <<fn, arg, ret2, varsK, varsP, varsS, varsE, varsW>>

\* _fix_punctuation_only_fields(author)
FixPunctuationOnlyFields ==
  /\ pcF = "start"
  /\ fn = "fix_punctuation_only_fields"
  /\ ret' = fix_punctuation_only_fields(arg.author)
  /\ pcF' = "done"
  /\ UNCHANGED <<fn, arg, ret2, varsK, varsP, varsS, varsE, varsW>>

\* _fix_single_letter_family(author)
FixSingleLetterFamily ==
  /\ pcF = "start"
  /\ fn = "fix_single_letter_family"
  /\ ret' = fix_single_letter_family(arg.author)
  /\ pcF' = "done"
  /\ UNCHANGED <<fn, arg, ret2, varsK, varsP, varsS, varsE, varsW>>

\* _fix_misplaced_initial(author)
FixMisplacedInitial ==
  /\ pcF = "start"
  /\ fn = "fix_misplaced_initial"
  /\ ret' = fix_misplaced_initial(arg.author)
  /\ pcF' = "done"
  /\ UNCHANGED <<fn, arg, ret2, varsK, varsP, varsS, varsE, varsW>>

NextRepair ==
  \/ FixLeadingHyphenFamily
  \/ FixPunctuationOnlyFields
  \/ FixSingleLetterFamily
  \/ FixMisplacedInitial

SpecRepair == InitRepair /\ [][NextRepair]_vars

\* C21: when family starts with "-" and given is not empty,
\* _fix_leading_hyphen_family returns family = the last given token followed
\* by the old family and given = the given tokens before it; an author
\* whose family does not start with "-" (a hyphen inside the name included)
\* or whose given is empty is returned unchanged.
C21_HyphenRejoined ==
  (fn = "fix_leading_hyphen_family" /\ pcF = "done") =>
    IF StartsWith(arg.author.family, <<45>>) /\ arg.author.given # <<>>
      THEN /\ ~Raised(ret)
           /\ Split(arg.author.given) # <<>>
           /\ ret.family = Split(arg.author.given)[Len(Split(arg.author.given))]
                             \o arg.author.family
           /\ ret.given = JoinSp(SubSeq(Split(arg.author.given), 1,
                                        Len(Split(arg.author.given)) - 1))
      ELSE ret = arg.author

\* Whether the claim calls a field junk: not empty, and without a letter,
\* or holding "@", or with "{" in front or "}" at the end.
JunkField(s) ==
  /\ s # <<>>
  /\ \/ \A i \in 1..Len(s) : ~IsAlpha(s[i])
     \/ \E i \in 1..Len(s) : s[i] = 64
     \/ s[1] = 123
     \/ s[Len(s)] = 125

\* C22: _fix_punctuation_only_fields clears a junk field (non-empty, and
\* without a letter, or holding "@", or with a brace at either end); when
\* family is empty or junk and given is not junk and has a letter the result
\* is parse_author_name(given); when both are junk the result is given ""
\* and family ""; two non-empty fields that are not junk come back
\* unchanged; a junk given is returned as "", and a junk family as "" unless
\* the given was parsed in its place.
C22_JunkFieldsCleared ==
  (fn = "fix_punctuation_only_fields" /\ pcF = "done") =>
    /\ DOMAIN ret = {"given", "family"}
    /\ ( /\ arg.author.family = <<>> \/ JunkField(arg.author.family)
         /\ ~JunkField(arg.author.given)
         /\ HasAlpha(arg.author.given) )
         => ret = parse_author_name(arg.author.given)
    /\ (JunkField(arg.author.given) /\ JunkField(arg.author.family))
         => ret = Author(<<>>, <<>>)
    /\ ( /\ arg.author.given # <<>> /\ ~JunkField(arg.author.given)
         /\ arg.author.family # <<>> /\ ~JunkField(arg.author.family) )
         => ret = arg.author
    /\ JunkField(arg.author.given) => ret.given = <<>>
    /\ (JunkField(arg.author.family) /\ ~HasAlpha(arg.author.given))
         => ret.family = <<>>

\* A junk family next to a given of two words: the given was parsed as a
\* full name, as in {given: "Lihua Xie", family: "()"}.
C22_Witness ==
  /\ fn = "fix_punctuation_only_fields" /\ pcF = "done"
  /\ arg.author = Author(S(<<"A", "b", " ", "J">>), S(<<"(", ")">>))
  /\ ret = Author(S(<<"A", "b">>), S(<<"J">>))

\* A single ASCII letter with an optional period after it.
LetterWithOptionalPeriod(s) ==
  s # <<>> /\ IsAsciiLetter(s[1]) /\ From(s, 2) \in {<<>>, <<46>>}

\* C23 as stated: whenever family is a single letter (optional trailing
\* period) and given holds at least one single-letter token, the result has
\* given = the single-letter given tokens in order followed by the old
\* family, and family = the other given tokens; every other author is
\* returned unchanged.
C23_InitialsMoved ==
  (fn = "fix_single_letter_family" /\ pcF = "done") =>
    IF /\ LetterWithOptionalPeriod(arg.author.family)
       /\ SelectSeq(Split(arg.author.given), LetterWithOptionalPeriod) # <<>>
      THEN ret = Author(
             JoinSp(SelectSeq(Split(arg.author.given), LetterWithOptionalPeriod)
                      \o <<arg.author.family>>),
             JoinSp(SelectSeq(Split(arg.author.given),
                              LAMBDA t : ~LetterWithOptionalPeriod(t))))
      ELSE ret = arg.author

\* What _SINGLE_LETTER_RE accepts: a single ASCII letter, an optional
\* period, and possibly one final line feed.
SingleLetterName(s) ==
  s # <<>> /\ IsAsciiLetter(s[1]) /\ From(s, 2) \in {<<>>, <<46>>, <<10>>, <<46, 10>>}

\* C23, amended: only when family is a single letter (optional period,
\* possibly one final line feed) and given holds at least one single-letter
\* token and at least one token that is not one, the result has given = the
\* single-letter given tokens in order followed by the old family, and
\* family = the other given tokens in order, which is then not empty; every
\* other author, one whose given holds initials only included, is returned
\* unchanged.
C23_InitialsMovedFromNames ==
  (fn = "fix_single_letter_family" /\ pcF = "done") =>
    IF /\ SingleLetterName(arg.author.family)
       /\ SelectSeq(Split(arg.author.given), SingleLetterName) # <<>>
       /\ SelectSeq(Split(arg.author.given), LAMBDA t : ~SingleLetterName(t)) # <<>>
      THEN /\ ret = Author(
                JoinSp(SelectSeq(Split(arg.author.given), SingleLetterName)
                         \o <<arg.author.family>>),
                JoinSp(SelectSeq(Split(arg.author.given),
                                 LAMBDA t : ~SingleLetterName(t))))
           /\ ret.family # <<>>
      ELSE ret = arg.author

\* A surname in given next to an initial, with a single-letter family, was
\* rearranged; or a given of initials only was left as it was.
C23_Witness ==
  /\ fn = "fix_single_letter_family" /\ pcF = "done"
  /\ \/ /\ arg.author = Author(S(<<"A", "b", " ", "I", ".">>), S(<<"D", ".">>))
        /\ ret = Author(S(<<"I", ".", " ", "D", ".">>), S(<<"A", "b">>))
     \/ /\ arg.author = Author(S(<<"I", ".", " ", "J">>), S(<<"D">>))
        /\ ret = arg.author

\* The leading letter of a family with the period that follows it, if any.
InitialOf(family) ==
  SubSeq(family, 1, IF Len(family) >= 2 /\ family[2] = 46 THEN 2 ELSE 1)

\* The last position of the <rest> that starts at q: the end of family, or
\* the position before a final line feed; 0 when family[q..] is empty or
\* holds another line feed.
RestEndAt(family, q) ==
  IF q <= Len(family) /\ \A j \in q..Len(family) : family[j] # 10
    THEN Len(family)
  ELSE IF /\ q <= Len(family) - 1
          /\ family[Len(family)] = 10
          /\ \A j \in q..(Len(family) - 1) : family[j] # 10
    THEN Len(family) - 1
  ELSE 0

\* The positions where a <rest> can start: after the initial and one or
\* more whitespace characters.
RestStarts(family) ==
  { q \in 2..Len(family) :
      /\ IsAsciiLetter(family[1])
      /\ q > Len(InitialOf(family)) + 1
      /\ \A j \in (Len(InitialOf(family)) + 1)..(q - 1) : IsSpace(family[j])
      /\ RestEndAt(family, q) # 0 }

\* C24: when family is a single ASCII letter, an optional period, whitespace
\* and a rest (read as the pattern reads it: not empty, on one line, after
\* the longest whitespace that leaves such a rest), _fix_misplaced_initial
\* returns given = the given tokens followed by the initial with its
\* period, and family = the rest; otherwise it returns the author
\* unchanged.  The given tokens followed by the family tokens are the same
\* before and after.
C24_InitialMovedToGiven ==
  (fn = "fix_misplaced_initial" /\ pcF = "done") =>
    /\ IF RestStarts(arg.author.family) # {}
         THEN \E q \in RestStarts(arg.author.family) :
                /\ \A x \in RestStarts(arg.author.family) : x <= q
                /\ ret.family = SubSeq(arg.author.family, q,
                                       RestEndAt(arg.author.family, q))
                /\ Split(ret.given) =
                     Split(arg.author.given) \o <<InitialOf(arg.author.family)>>
         ELSE ret = arg.author
    /\ Split(ret.given) \o Split(ret.family)
         = Split(arg.author.given) \o Split(arg.author.family)

\* The docstring's case: an initial with a period in front of the family
\* went to the end of a given of two tokens.
C24_Witness ==
  /\ fn = "fix_misplaced_initial" /\ pcF = "done"
  /\ arg.author = Author(S(<<"A", "b", " ", "J">>), S(<<"A", ".", " ", "C", "d">>))
  /\ ret = Author(S(<<"A", "b", " ", "J", " ", "A", ".">>), S(<<"C", "d">>))

(***************************************************************************)
(* _clean_raw_author_name on raw names made of words, markers, entities,   *)
(* parentheticals and accent commands.                                     *)
(***************************************************************************)

MaxCleanTokens == 2

\* Pieces of raw names: a word, a marked word, "&#42;" (an asterisk as an
\* entity), "&amp;", "&#352;a", "(PhD)", "(jR.)", "(Bob)", "(B1)", "\L"
\* before a non-ASCII letter, "\o" alone, "\o" before a digit and "\o"
\* before a marker and a letter.
CleanTokens ==
  { S(<<"A", "b">>), S(<<"A", "b", "*">>), S(<<"&", "#", "4", "2", ";">>),
    S(<<"&", "a", "m", "p", ";">>), S(<<"&", "#", "3", "5", "2", ";", "a">>),
    S(<<"(", "P", "h", "D", ")">>), S(<<"(", "j", "R", ".", ")">>),
    S(<<"(", "B", "o", "b", ")">>), S(<<"(", "B", "1", ")">>),
    S(<<"\\", "L">>) \o <<261>>, S(<<"\\", "o">>), S(<<"\\", "o", "1">>),
    S(<<"\\", "o", "*", "b">>) }

\* Raw names: the pieces joined by one space, by nothing, and by a tab and
\* a space with a space in front.
CleanNames ==
  { JoinSp(ws) : ws \in SeqsUpTo(CleanTokens, MaxCleanTokens) } \cup
  { Concat(ws) : ws \in SeqsUpTo(CleanTokens, MaxCleanTokens) } \cup
  { <<32>> \o Concat([i \in 1..Len(ws) |-> ws[i] \o <<9, 32>>]) :
      ws \in SeqsUpTo(CleanTokens, MaxCleanTokens) }

InitClean ==
  /\ fn = "clean_raw_author_name"
  /\ arg \in [name : CleanNames]
  /\ ret = NoResult
  /\ ret2 = NoResult
  /\ pcF = "start"
  /\ IdleBatch
  /\ IdleKeys
  /\ IdlePaper
  /\ IdleStage

\* _clean_raw_author_name(name)
CleanRawAuthorName ==
  /\ pcF = "start"
  /\ fn = "clean_raw_author_name"
  /\ ret' = clean_raw_author_name(arg.name)
  /\ pcF' = "done"
  /\ UNCHANGED <<fn, arg, ret2, varsK, varsP, varsS, varsE, varsW>>

\* The cleaned name is cleaned again, as a repair run does with stored names.
CleanRawAuthorNameAgain ==
  /\ pcF = "done"
  /\ fn = "clean_raw_author_name"
  /\ ret2' = clean_raw_author_name(ret)
  /\ pcF' = "again"
  /\ UNCHANGED <<fn, arg, ret, varsK, varsP, varsS, varsE, varsW>>

NextClean == CleanRawAuthorName \/ CleanRawAuthorNameAgain

SpecClean == InitClean /\ [][NextClean]_vars

\* Whether s holds an accent command of the table right before an ASCII
\* letter or a non-ASCII character.
CommandBeforeLetter(s) ==
  \E p \in 1..Len(s) : \E k \in 1..Len(BIBTEX_ACCENT_MAP) :
    /\ s[p] = 92
    /\ p + Len(BIBTEX_ACCENT_MAP[k][1]) + 1 <= Len(s)
    /\ SubSeq(s, p + 1, p + Len(BIBTEX_ACCENT_MAP[k][1])) = BIBTEX_ACCENT_MAP[k][1]
    /\ \/ IsAsciiLetter(s[p + Len(BIBTEX_ACCENT_MAP[k][1]) + 1])
       \/ s[p + Len(BIBTEX_ACCENT_MAP[k][1]) + 1] >= 128

MaxCaseLen == 4

\* "A", "b", U+4E2D (alphabetic, without case), "1", " ", "'".
CaseChars == {65, 98, 20013, 49, 32, 39}

InitTitleCase ==
  /\ fn = "normalize_title_case"
  /\ arg \in [title : SeqsUpTo(CaseChars, MaxCaseLen)]
  /\ ret = NoResult
  /\ ret2 = NoResult
  /\ pcF = "start"
  /\ IdleBatch
  /\ IdleKeys
  /\ IdlePaper
  /\ IdleStage

\* normalize_title_case(title)
NormalizeTitleCase ==
  /\ pcF = "start"
  /\ fn = "normalize_title_case"
  /\ ret' = normalize_title_case(arg.title)
  /\ pcF' = "done"
  /\ UNCHANGED <<fn, arg, ret2, varsK, varsP, varsS, varsE, varsW>>

\* normalize_paper on a stored record normalizes the title once more.
NormalizeTitleCaseAgain ==
  /\ pcF = "done"
  /\ fn = "normalize_title_case"
  /\ ret2' = normalize_title_case(ret)
  /\ pcF' = "again"
  /\ UNCHANGED <<fn, arg, ret, varsK, varsP, varsS, varsE, varsW>>

NextTitleCase == NormalizeTitleCase \/ NormalizeTitleCaseAgain

SpecTitleCase == InitTitleCase /\ [][NextTitleCase]_vars

\* C26 as stated: the title is returned unchanged when it is empty, has no
\* alphabetic character, or holds both an upper-case and a lower-case
\* letter; it is changed only when every alphabetic character is upper
\* case or every alphabetic character is lower case.
C26_OnlyUniformAlphabetic ==
  (fn = "normalize_title_case" /\ pcF # "start") =>
    /\ ( \/ arg.title = <<>>
         \/ \A i \in 1..Len(arg.title) : ~IsAlpha(arg.title[i])
         \/ /\ \E i \in 1..Len(arg.title) : IsUpperCh(arg.title[i])
            /\ \E i \in 1..Len(arg.title) : IsLowerCh(arg.title[i]) )
         => ret = arg.title
    /\ ret # arg.title =>
         \/ \A i \in 1..Len(arg.title) : IsAlpha(arg.title[i]) => IsUpperCh(arg.title[i])
         \/ \A i \in 1..Len(arg.title) : IsAlpha(arg.title[i]) => IsLowerCh(arg.title[i])

\* Whether the character at position i starts a word for str.title(): no
\* cased character stands right before it.
StartsWord(s, i) == i = 1 \/ ~(IsUpperCh(s[i - 1]) \/ IsLowerCh(s[i - 1]))

\* C26, amended: the title is returned unchanged when it is empty, has no
\* letter with a case, or holds both an upper-case and a lower-case letter;
\* when it holds a cased letter and all its cased letters are upper case,
\* or all are lower case (alphabetic characters without case do not
\* count), every cased letter that starts a word is made upper case, every
\* other cased letter lower case, and the other characters are kept.
C26_CasedLettersUniform ==
  (fn = "normalize_title_case" /\ pcF # "start") =>
    IF \/ \A i \in 1..Len(arg.title) : ~IsUpperCh(arg.title[i]) /\ ~IsLowerCh(arg.title[i])
       \/ /\ \E i \in 1..Len(arg.title) : IsUpperCh(arg.title[i])
          /\ \E i \in 1..Len(arg.title) : IsLowerCh(arg.title[i])
      THEN ret = arg.title
      ELSE ret = [i \in 1..Len(arg.title) |->
                    IF IsUpperCh(arg.title[i]) \/ IsLowerCh(arg.title[i])
                      THEN IF StartsWord(arg.title, i) THEN UpperCh(arg.title[i])
                           ELSE LowerCh(arg.title[i])
                    ELSE arg.title[i]]

\* An upper-case title with a character without case was capitalized per
\* word; or a mixed-case title was returned as it was.
C26_Witness ==
  /\ fn = "normalize_title_case" /\ pcF = "done"
  /\ \/ arg.title = <<65, 65, 32, 20013>> /\ ret = <<65, 97, 32, 20013>>
     \/ arg.title = <<65, 98, 32, 65>> /\ ret = arg.title

(***************************************************************************)
(* scripts/repair_author_names: _normalize_author and the drop decision of *)
(* repair_file, next to the author chain of normalize_paper, on one author. *)
(***************************************************************************)

\* The four fix-up calls of _normalize_author, in the order of its body.
ScriptStages(cleaned) ==
  ThenFixPunctuation(
    fix_leading_hyphen_family(
      fix_single_letter_family(
        fix_misplaced_initial(cleaned))))

\* cleaned["slug"] = slugify_author(cleaned); return cleaned
ScriptWithSlug(cleaned, ud) ==
  IF Raised(cleaned) THEN cleaned ELSE WithSlug(cleaned, ud)

\* _normalize_author(author)
normalize_author(a, ud) ==
  ScriptWithSlug(
    ScriptStages(Author(clean_raw_author_name(repair_mojibake(GetStr(a, "given"))),
                        clean_raw_author_name(repair_mojibake(GetStr(a, "family"))))),
    ud)

\* repair_file's loop body for one author: the repaired author, and whether
\* it is appended to new_authors.
RepairFileAuthor(a, ud) ==
  IF Raised(normalize_author(a, ud)) THEN normalize_author(a, ud)
  ELSE [author |-> normalize_author(a, ud), kept |-> KeepAuthor(normalize_author(a, ud))]

\* normalize_paper's loop body, filter and slug for one author: the author
\* with its slug, and whether the filter keeps it.
PaperAuthor(a, ud) ==
  IF Raised(AuthorChain(a)) THEN AuthorChain(a)
  ELSE [author |-> WithSlug(AuthorChain(a), ud), kept |-> KeepAuthor(AuthorChain(a))]

MaxChainTokens == 2

\* Tokens of given names: a word, a capitalised particle, an initial, a
\* marker.
ChainTokens == { S(<<"A", "b">>), S(<<"V", "a", "n">>), S(<<"I", ".">>), S(<<"*">>) }

\* Families: a word, a hyphen-led one, a single letter, junk, one with an
\* initial in front, none.
ChainFamilies ==
  { S(<<"G", "o", "o", "l">>), S(<<"-", "C", "d">>), S(<<"D", ".">>), S(<<"(", ")">>),
    S(<<"A", " ", "C", "d">>), <<>> }

InitChain ==
  /\ fn = "author_chain"
  /\ arg \in [author : { Author(JoinSp(ws), f) :
                           ws \in SeqsUpTo(ChainTokens, MaxChainTokens),
                           f \in ChainFamilies }]
  /\ ret = NoResult
  /\ ret2 = NoResult
  /\ pcF = "start"
  /\ IdleBatch
  /\ IdleKeys
  /\ NoPaper
  /\ IdleStage

\* An adapter run: normalize_paper handles the author.
PaperAuthorChain ==
  /\ pcF = "start"
  /\ fn = "author_chain"
  /\ ret' = PaperAuthor(arg.author, has_unidecode)
  /\ pcF' = "paper"
  /\ UNCHANGED <<fn, arg, ret2, varsK, varsP, varsS, varsE, varsW>>

\* A repair run: repair_file handles the raw author.
ScriptAuthorChain ==
  /\ pcF = "paper"
  /\ fn = "author_chain"
  /\ ret2' = RepairFileAuthor(arg.author, has_unidecode)
  /\ pcF' = "done"
  /\ UNCHANGED <<fn, arg, ret, varsK, varsP, varsS, varsE, varsW>>

NextChain == PaperAuthorChain \/ ScriptAuthorChain

SpecChain == InitChain /\ [][NextChain]_vars

\* C27: for every author, _normalize_author and repair_file's drop decision
\* yield the same given, family and slug, and the same decision, as the
\* author chain, filter and slug of normalize_paper.
C27_ScriptChainAgrees ==
  (fn = "author_chain" /\ pcF = "done") => ret2 = ret

(***************************************************************************)
(* adapters/pmlr: process_volume fetches the posts of one volume through   *)
(* http.fetch_parallel and resolves the key collisions of the papers.      *)
(***************************************************************************)

MaxPosts == 3

\* What fetch_and_parse_post returns for a post: None, or a paper with the
\* candidate key made from its first author, year, venue and title.
PostOutcomes == { NoResult, [bibtex_key |-> S(<<"a">>)], [bibtex_key |-> S(<<"b">>)] }

\* The post files list_posts returns, each with the outcome of its fetch.
PostLists ==
  UNION { { [i \in 1..n |-> [file |-> i, parsed |-> o[i]]] : o \in [1..n -> PostOutcomes] } :
            n \in 0..MaxPosts }

\* results[key] = future.result()
SetResult(results, key, value) == Append(results, [key |-> key, value |-> value])

\* papers = [p for p in results.values() if p is not None], each paper
\* with the file it came from.
FetchedPapers(results) ==
  SelectSeq([i \in 1..Len(results) |->
               IF results[i].value = NoResult THEN NoResult
               ELSE [source_id |-> results[i].key,
                     bibtex_key |-> results[i].value.bibtex_key]],
            LAMBDA p : p # NoResult)

\* bibtex_keys = [p["bibtex_key"] for p in papers]
BibtexKeysOf(ps) == [i \in 1..Len(ps) |-> ps[i].bibtex_key]

\* for paper, key in zip(papers, resolved_keys): paper["bibtex_key"] = key
ZipKeys(ps, resolved_keys) ==
  [i \in 1..Len(ps) |-> [ps[i] EXCEPT !.bibtex_key = resolved_keys[i]]]

\* process_volume from the return of fetch_parallel on.
PapersOfResults(results) ==
  ZipKeys(FetchedPapers(results),
          resolve_bibtex_collisions(BibtexKeysOf(FetchedPapers(results))))

InitVolume ==
  /\ mode = "process_volume"
  /\ jobs \in PostLists
  /\ pcW = [i \in 1..Len(jobs) |-> "submitted"]
  /\ records = <<>>
  /\ papers = <<>>
  /\ before = <<>>
  /\ pcE = "fetching"
  /\ fn = "none" /\ arg = NoResult /\ ret = NoResult /\ ret2 = NoResult /\ pcF = "idle"
  /\ IdleKeys
  /\ IdlePaper
  /\ IdleStage

\* fetch_parallel: the future of post i is the next that as_completed
\* yields, and its result is stored under the post's file name.
CompleteFetch(i) ==
  /\ mode = "process_volume"
  /\ pcE = "fetching"
  /\ pcW[i] = "submitted"
  /\ records' = SetResult(records, jobs[i].file, jobs[i].parsed)
  /\ pcW' = [pcW EXCEPT ![i] = "done"]
  /\ UNCHANGED <<jobs, mode, papers, before, pcE, varsK, varsP, varsS, fn, arg, ret, ret2, pcF>>

\* fetch_parallel has returned: the papers are collected, their keys are
\* resolved in one pass and written back.
ResolveVolume ==
  /\ mode = "process_volume"
  /\ pcE = "fetching"
  /\ \A i \in 1..Len(jobs) : pcW[i] = "done"
  /\ papers' = PapersOfResults(records)
  /\ pcE' = "done"
  /\ UNCHANGED <<jobs, records, pcW, mode, before, varsK, varsP, varsS, fn, arg, ret, ret2, pcF>>

NextVolume == (\E i \in 1..Len(jobs) : CompleteFetch(i)) \/ ResolveVolume

SpecVolume == InitVolume /\ [][NextVolume]_vars

\* The results when the fetches complete in the order of the post list.
ResultsInListOrder == [i \in 1..Len(jobs) |-> [key |-> jobs[i].file, value |-> jobs[i].parsed]]

\* C28: for a given list of posts, each paper of process_volume's result
\* has the resolved key it has when the fetches complete in the order of
\* the post list, whatever the order in which they did complete.
C28_KeysIndependentOfCompletion ==
  (mode = "process_volume" /\ pcE = "done") =>
    \A i \in 1..Len(papers) : \A j \in 1..Len(PapersOfResults(ResultsInListOrder)) :
      papers[i].source_id = PapersOfResults(ResultsInListOrder)[j].source_id
        => papers[i].bibtex_key = PapersOfResults(ResultsInListOrder)[j].bibtex_key

(***************************************************************************)
(* normalize_paper on papers whose authors have junk, empty and missing    *)
(* name parts.                                                             *)
(***************************************************************************)

MaxRecordAuthors == 2

\* Author dicts: a junk family next to a name of one and of two words, a
\* junk given, two junk parts, no family, no given key, an ideograph as
\* given only, nothing at all, a plain pair.
JunkAuthorPool ==
  { DictEntry(Author(S(<<"A", "b">>), S(<<"(", ")">>))),
    DictEntry(Author(S(<<"A", "b", " ", "J">>), S(<<"*">>))),
    DictEntry(Author(S(<<".">>), S(<<"A", "b">>))),
    DictEntry(Author(S(<<"a", "@", "b">>), S(<<"{", "a">>))),
    DictEntry(Author(S(<<"A", "b">>), <<>>)),
    DictEntry([family |-> S(<<"A", "b">>)]),
    DictEntry(Author(<<33391>>, <<>>)),
    DictEntry(Author(<<>>, <<>>)),
    DictEntry(Author(S(<<"A", "b">>), S(<<"L", "a">>))) }

InitAuthors ==
  /\ paper \in { RawPaper({ REQUIRED_PAPER_FIELDS[i] : i \in 1..Len(REQUIRED_PAPER_FIELDS) },
                          S(<<"A", "b">>), authors, <<>>) :
                   authors \in SeqsUpTo(JunkAuthorPool, MaxRecordAuthors) }
  /\ has_unidecode \in BOOLEAN
  /\ result = NoResult
  /\ again = NoResult
  /\ pcP = "start"
  /\ IdleKeys
  /\ IdleStage
  /\ IdleCall

SpecAuthors == InitAuthors /\ [][NextPaper]_vars

\* C29: every author of a record normalize_paper returns has a non-empty
\* family and a non-empty slug; the chain that ends with
\* _fix_punctuation_only_fields leaves the family of an author of the raw
\* paper empty only if it leaves the given empty too.
C29_AuthorsHaveFamily ==
  (pcP \in {"done", "again"} /\ ~Raised(result)) =>
    /\ \A i \in 1..Len(result["authors"]) :
         /\ result["authors"][i].family # <<>>
         /\ result["authors"][i].slug # <<>>
    /\ \A i \in 1..Len(paper["authors"]) :
         AuthorChain(paper["authors"][i].d).family = <<>>
           => AuthorChain(paper["authors"][i].d).given = <<>>

\* A paper with a junk-family author and an author without a name was
\* normalized: the first was kept with the family parsed from its given,
\* the second was dropped.
C29_Witness ==
  /\ pcP = "done"
  /\ paper["authors"] = << DictEntry(Author(S(<<"A", "b", " ", "J">>), S(<<"*">>))),
                           DictEntry(Author(S(<<"a", "@", "b">>), S(<<"{", "a">>))) >>
  /\ Len(result["authors"]) = 1
  /\ result["authors"][1].given = S(<<"A", "b">>)
  /\ result["authors"][1].family = S(<<"J">>)

(***************************************************************************)
(* The collision resolver on a batch that holds one key many times.        *)
(***************************************************************************)

MaxOccurrences == 30

\* Candidate keys over the key alphabet [a-z0-9-].
RepeatedKeyPool ==
  { S(<<"a">>), S(<<"b", "1">>), S(<<"a", "-", "b">>), S(<<"l", "i", "u", "2", "0", "2", "5", "i", "c", "m", "l", "-", "a">>) }

InitManyKeys ==
  /\ keys \in { [i \in 1..n |-> k] : k \in RepeatedKeyPool, n \in 1..MaxOccurrences }
  /\ resolved = <<>>
  /\ pcK = "start"
  /\ IdlePaper
  /\ IdleStage
  /\ IdleCall

SpecManyKeys == InitManyKeys /\ [][NextKeys]_vars

\* [a-z0-9-], the characters the validator accepts in a key.
IsKeyChar(c) == c \in 97..122 \/ c \in 48..57 \/ c = 45

\* C30: for any number of occurrences of one key, every suffix appended by
\* resolve_bibtex_collisions is "-" followed by one letter of a..z, and a
\* resolved key made from a key over [a-z0-9-] is a key over [a-z0-9-].
C30_SuffixInKeyAlphabet ==
  pcK = "done" =>
    \A i \in 1..Len(resolved) :
      /\ \/ resolved[i] = keys[i]
         \/ \E c \in 97..122 : resolved[i] = keys[i] \o <<45, c>>
      /\ \A j \in 1..Len(resolved[i]) : IsKeyChar(resolved[i][j])

(***************************************************************************)
(* The whole program: one of the components above is at work.             *)
(***************************************************************************)

Init == InitKeys \/ InitPaper \/ InitStage \/ InitMojibake \/ InitSlug \/ InitSlugAuthor
          \/ InitBibtexKey \/ InitEnrich \/ InitWorkers \/ InitNames \/ InitRepair
          \/ InitClean \/ InitTitleCase \/ InitChain \/ InitVolume \/ InitAuthors
          \/ InitManyKeys

Next == NextKeys \/ NextPaper \/ NextStage \/ NextMojibake \/ NextSlug \/ NextSlugAuthor
          \/ NextBibtexKey \/ NextEnrich \/ NextWorkers \/ NextNames \/ NextRepair
          \/ NextClean \/ NextTitleCase \/ NextChain \/ NextVolume

Spec == Init /\ [][Next]_vars

====
